---- MODULE Spec2Model ----
(***************************************************************************)
(* Model of the concurrent batch-processing engine of the document         *)
(* converter: BatchProcessor.process_documents_in_batches (the             *)
(* orchestrator), MultiThreadProcessor.process_documents_parallel (the     *)
(* worker pool, with its nested per-item processor) and                    *)
(* MultiThreadProcessor._process_documents_sequential (the pool's          *)
(* single-threaded path), together with the FailedConversionsTracker they  *)
(* write to.                                                               *)
(*                                                                         *)
(* The collaborators handed to the pool (source/destination monitors, the  *)
(* converter, the tqdm progress bar, the file system) are modelled by      *)
(* what a call can do to its caller: return a truthy value ("ok"), return  *)
(* a falsy value ("fail") or raise an exception ("raise").                 *)
(***************************************************************************)
EXTENDS Integers, Sequences, FiniteSets, TLC

\* ---------------------------------------------------------------- bounds
MaxDocs == 2
MaxWorkers == 2
MaxMinFiles == 2
MaxBatchSize == 2

VARIABLES
    ENABLE_MULTI_THREADING,          \* config.py:52
    MAX_WORKER_THREADS,              \* config.py:53
    MIN_FILES_FOR_MULTI_THREADING,   \* config.py:54
    ENABLE_BATCH_PROCESSING,         \* config.py:57
    BATCH_SIZE,                      \* config.py:58
    ENABLE_PROGRESS_BARS,            \* config.py:67
    BATCH_DELAY_SECONDS,             \* config.py:59
    DISABLE_LOGGING_DURING_PROGRESS, \* batch_processor.py:6 (from config)
    documents,        \* the list handed to process_documents_in_batches
    bp_pc,            \* position of the orchestrator
    batch_num,        \* loop variable of the orchestrator (0-based)
    results,          \* the orchestrator's results dictionary
    mt_pc,            \* position of the current pool invocation
    batch_start,      \* offsets of the slice handed to the pool
    batch_end,
    mt_results,       \* the pool invocation's results dictionary
    doc_idx,          \* loop variable of the sequential path (1-based)
    item,             \* per document: position, result, history
    queue,            \* work queue of the ThreadPoolExecutor
    worker,           \* per pool thread: the document it runs, or 0
    failed_tracker,   \* rows of the failed-conversions CSV file
    processed_files,  \* source_blob_monitor.processed_files
    progress_bar,     \* updates received by the pool's progress bar
    lock,             \* the threads holding self._lock (the aggregator lock)
    progress_lock,    \* the threads holding self._progress_lock
    thread_local,     \* per thread: the converter attribute of thread_local
    made,             \* per thread: DocumentConverter() calls it made (history)
    overall_progress_bar,  \* the orchestrator's bar over all batches
    delays,           \* inter-batch sleeps begun so far (history)
    outcome,          \* what the orchestrator's caller has received
    interrupt,        \* the KeyboardInterrupt that reached the main thread
    clock,            \* datetime.now(), in hours since the model's start
    reply,            \* what the last tracker, viewer or adviser call returned
    clearing,         \* position of a clear_old_records call of the viewer
    root_logger,      \* logging.getLogger(): its handlers and its level
    destination,      \* the destination container: per blob name, the item
                      \* whose result the blob holds
    app               \* DocumentConverterApp.run: its position, the trigger
                      \* file and the jobs started for it

config == <<ENABLE_MULTI_THREADING, MAX_WORKER_THREADS,
            MIN_FILES_FOR_MULTI_THREADING, ENABLE_BATCH_PROCESSING,
            BATCH_SIZE, ENABLE_PROGRESS_BARS, BATCH_DELAY_SECONDS,
            DISABLE_LOGGING_DURING_PROGRESS, documents>>

\* the clock and the last answer of the failure tools
sinkVars == <<clock, reply, clearing>>

\* what the converter's steps leave alone: the tools and the root logger
toolVars == <<sinkVars, root_logger, destination, app>>

vars == <<ENABLE_MULTI_THREADING, MAX_WORKER_THREADS,
          MIN_FILES_FOR_MULTI_THREADING, ENABLE_BATCH_PROCESSING,
          BATCH_SIZE, ENABLE_PROGRESS_BARS, BATCH_DELAY_SECONDS,
          DISABLE_LOGGING_DURING_PROGRESS, documents,
          bp_pc, batch_num, results, mt_pc, batch_start, batch_end,
          mt_results, doc_idx, item, queue, worker, failed_tracker,
          processed_files, progress_bar, lock, progress_lock, thread_local,
          made, overall_progress_bar, delays, outcome, interrupt,
          clock, reply, clearing, root_logger, destination, app>>

\* ------------------------------------------------------------- helpers
Min(a, b) == IF a < b THEN a ELSE b

\* extensions cycled through by the test document lists
test_extensions == <<".docx", ".pdf", ".txt", ".html", ".jpg", ".png">>

\* document number i of a generated list, "test_document_<i><ext>": a
\* unique base name and an extension taken in turn from test_extensions
create_test_document(i) ==
    [base |-> i, ext |-> test_extensions[((i - 1) % Len(test_extensions)) + 1]]

create_test_documents(n) == [i \in 1..n |-> create_test_document(i)]

\* file_ext in ['.pdf', '.tif', '.tiff']
IsCopyAsIs(doc) == doc.ext \in {".pdf", ".tif", ".tiff"}

\* (variant: one kind for every failed transform)
TransformErrorTypeConversion(doc) == "CONVERSION_FAILED"

\* OUTPUT_DIR, the directory convert_to_pdf writes to
OUTPUT_DIR == "converted_documents"

\* a local path is a directory and a file name; a file name is the
\* sequence of its parts, the extension last
\* (variant: the name of the sequential path, os.path.join("temp", filename))
temp_file_path_shared(thread_id, doc) ==
    [dir |-> "temp", name |-> <<doc.base, doc.ext>>]

\* os.path.join("temp", f"thread_{thread_id}_{filename}")
temp_file_path(thread_id, doc) ==
    [dir |-> "temp", name |-> <<"thread", thread_id, doc.base, doc.ext>>]

\* the path convert_to_pdf(input_path) produces: the input's base name with
\* the extension .pdf, in OUTPUT_DIR
converted_file_path(input_path) ==
    [dir |-> OUTPUT_DIR,
     name |-> Append(SubSeq(input_path.name, 1, Len(input_path.name) - 1),
                     ".pdf")]

\* the file name of the published result: the original file name for TIF
\* files, the base name with the extension .pdf for all others
dest_filename(doc) ==
    IF doc.ext \in {".tif", ".tiff"}
    THEN <<doc.base, doc.ext>>
    ELSE <<doc.base, ".pdf">>

\* f"converted/{dest_filename}" (under the destination's additional path,
\* which is the same for every item of a run)
blob_name(doc) == [dir |-> "converted", name |-> dest_filename(doc)]

\* an empty destination container
NoBlobs == [b \in {} |-> 0]

\* blob_client.upload_blob(file, overwrite=True): the blob of that name
\* holds what was uploaded last
upload_blob(blobs, name, i) ==
    [b \in DOMAIN blobs \cup {name} |-> IF b = name THEN i ELSE blobs[b]]

\* a list of n documents that lie in different folders of the source and
\* have the same file name, "report.docx"
same_name_documents(n) == [i \in 1..n |-> [base |-> 1, ext |-> ".docx"]]

\* the error kind recorded when convert_to_pdf returns nothing
TransformErrorType(doc) ==
    IF IsCopyAsIs(doc) THEN "COPY_FAILED" ELSE "CONVERSION_FAILED"

ErrorTypes == {"DOWNLOAD_FAILED", "CONVERSION_FAILED", "COPY_FAILED",
               "UPLOAD_FAILED", "PROCESSING_ERROR"}

\* what a call of a collaborator can do to its caller
CallResults == {"ok", "fail", "raise"}
VoidResults == {"ok", "raise"}

\* progress-bar calls happen only when a bar was created
ProgressResults == IF ENABLE_PROGRESS_BARS THEN VoidResults ELSE {"ok"}

\* FailedConversionsTracker.add_failed_conversion: appends one row; an
\* error while writing is swallowed and leaves the file as it was
\* datetime.isoformat and datetime.fromisoformat, on the model's clock
isoformat(t) == <<"T", t>>
fromisoformat(s) == s[2]

\* (variant: the file is opened for writing, not for appending)
add_failed_conversion_w(rows, i, error_type, wr) ==
    IF wr = "ok"
    THEN <<[item |-> i, filename |-> documents[i],
            error_type |-> error_type, timestamp |-> isoformat(clock)]>>
    ELSE rows

\* FailedConversionsTracker.add_failed_conversion: appends one row stamped
\* with the current time; an error while writing is swallowed and leaves
\* the file as it was
add_failed_conversion(rows, i, error_type, wr) ==
    IF wr = "ok"
    THEN Append(rows, [item |-> i, filename |-> documents[i],
                       error_type |-> error_type,
                       timestamp |-> isoformat(clock)])
    ELSE rows

\* (variant: the division rounds down)
num_batches_floor == Len(documents) \div BATCH_SIZE

\* number of batches: ceiling division
num_batches == (Len(documents) + BATCH_SIZE - 1) \div BATCH_SIZE

\* no DocumentConverter: an attribute or a local that is not set
NoConverter == [made_by |-> 0, no |-> 0]

\* the item record of a document nobody touched yet
\*   pc          where its processing stands
\*   success     result['success']
\*   error_type  result['error_type']
\*   exc         an exception left the per-item processing
\*   raised      one of the steps of its processing raised (history)
\*   starts      how often its processing was started (history)
\*   succ, fails how often it incremented either counter (history)
\*   temp        a file of its own is in the local directories: the
\*               fetched original (temp_file_path), joined after the
\*               transform by the produced result (converted_file_path)
\*   document_converter  the converter the running call holds
NewItem == [pc |-> "pending", success |-> FALSE, error_type |-> "None",
            exc |-> FALSE, raised |-> FALSE, starts |-> 0, succ |-> 0,
            fails |-> 0, temp |-> FALSE, document_converter |-> NoConverter]

\* documents of the slice handed to the current pool invocation
PoolDocs == (batch_start + 1)..batch_end

\* (variant: the executor is given one thread too many)
PoolThreadsPlusOne == 1..(MAX_WORKER_THREADS + 1)

\* the threads the executor may create: max_workers=MAX_WORKER_THREADS
PoolThreads == 1..MAX_WORKER_THREADS

\* the thread that calls the orchestrator and runs the pool's loops
MainThread == 0

\* the orchestrator's results dictionary before any batch
NoJobStats == [total_documents |-> 0, total_batches |-> 0,
               successful_conversions |-> 0, failed_conversions |-> 0,
               batch_results |-> <<>>]

\* logging.basicConfig(level=logging.INFO, handlers=[FileHandler(...),
\* StreamHandler()]): the root logger of the application
basicConfig ==
    [handlers |-> <<"FileHandler", "StreamHandler">>, level |-> "INFO"]

\* no overall progress bar: "overall_progress_bar = None"
NoBar == [state |-> "none", n |-> 0]

\* no KeyboardInterrupt so far; one that arrives is kept with what the
\* failure file and the batch statistics held at that moment (history)
NoInterrupt == [arrived |-> FALSE, batch_num |-> 0, rows |-> <<>>,
                stats |-> <<>>]

\* the caller still waits for the orchestrator
NoOutcome == [kind |-> "running", value |-> NoJobStats]

\* the application before run(): no trigger file in the config folder
NotStarted == [pc |-> "poll", trigger |-> FALSE, triggers |-> 0,
               jobs |-> 0, doc |-> 0]

\* no tracker, viewer or adviser call has answered yet
NoReply == [op |-> "none"]

\* no clear_old_records call is between its read and its rewrite
\* (file_rows: the rows the file held when the call read it, a history)
NotClearing ==
    [pc |-> "idle", days |-> 0, recent_failures |-> <<>>, file_rows |-> 0]

\* BATCH_DELAY_SECONDS as config.py sets it
DefaultBatchDelay == 5

\* thread_local before any thread set its converter attribute
NoConverters == [t \in PoolThreads |-> NoConverter]

\* no thread has constructed a DocumentConverter
NoneMade == [t \in PoolThreads |-> 0]

\* ---------------------------------------------------------------- Init
\* an empty pool-results dictionary (before any invocation)
NoResults == [total_documents |-> 0, successful_conversions |-> 0,
              failed_conversions |-> 0, thread_count |-> 0]

\* the batch sizes tried: BATCH_SIZE is read only when batching is enabled
BatchSizes == IF ENABLE_BATCH_PROCESSING THEN 1..MaxBatchSize ELSE {1}

Init ==
    /\ ENABLE_MULTI_THREADING \in BOOLEAN
    /\ MAX_WORKER_THREADS \in 1..MaxWorkers
    /\ MIN_FILES_FOR_MULTI_THREADING \in 1..MaxMinFiles
    /\ ENABLE_BATCH_PROCESSING \in BOOLEAN
    /\ BATCH_SIZE \in BatchSizes
    /\ ENABLE_PROGRESS_BARS \in BOOLEAN
    /\ documents \in {create_test_documents(n) : n \in 0..MaxDocs}
    /\ bp_pc = "call"
    /\ batch_num = 0
    /\ results = NoJobStats
    /\ mt_pc = "idle"
    /\ batch_start = 0
    /\ batch_end = 0
    /\ mt_results = NoResults
    /\ doc_idx = 0
    /\ item = [i \in 1..Len(documents) |-> NewItem]
    /\ queue = <<>>
    /\ worker = [t \in PoolThreads |-> 0]
    /\ failed_tracker = <<>>
    /\ processed_files = {}
    /\ progress_bar = 0
    /\ lock = {}
    /\ progress_lock = {}
    /\ thread_local = NoConverters
    /\ made = NoneMade
    /\ overall_progress_bar = NoBar
    /\ delays = 0
    /\ outcome = NoOutcome
    /\ interrupt = NoInterrupt
    /\ BATCH_DELAY_SECONDS = DefaultBatchDelay
    /\ clock = 0
    /\ reply = NoReply
    /\ clearing = NotClearing
    /\ DISABLE_LOGGING_DURING_PROGRESS = TRUE
    /\ root_logger = basicConfig
    /\ destination = NoBlobs
    /\ app = NotStarted

\* ------------------------------------------ BatchProcessor (orchestrator)
poolVars == <<mt_results, doc_idx, item, queue, worker, failed_tracker,
              processed_files, progress_bar, lock, progress_lock,
              thread_local, made>>

\* what the orchestrator keeps beside its results dictionary
jobVars == <<overall_progress_bar, delays, outcome, interrupt>>

\* (variant: a batch begins after the items converted so far)
BatchStartOfConverted(k) == results.successful_conversions

\* batch_start = batch_num * BATCH_SIZE
BatchStartOf(k) == k * BATCH_SIZE

\* batch_end = min(batch_start + BATCH_SIZE, total_documents)
BatchEndOf(k) == Min(BatchStartOf(k) + BATCH_SIZE, Len(documents))

\* "logging.getLogger().handlers.clear()"
handlers_clear(logger) == [logger EXCEPT !.handlers = <<>>]

\* Logger.addHandler: appends a handler the logger does not have yet
addHandler(logger, handler) ==
    IF \E k \in DOMAIN logger.handlers : logger.handlers[k] = handler
    THEN logger
    ELSE [logger EXCEPT !.handlers = Append(@, handler)]

\* "for handler in original_handlers: logging.getLogger().addHandler(handler)"
RECURSIVE addHandlers(_, _)
addHandlers(logger, original_handlers) ==
    IF original_handlers = <<>>
    THEN logger
    ELSE addHandlers(addHandler(logger, Head(original_handlers)),
                     Tail(original_handlers))

\* "logging.getLogger().setLevel(level)"
setLevel(logger, level) == [logger EXCEPT !.level = level]

\* the root logger after the overall bar was created: the handlers are
\* saved and detached before tqdm(...) and attached again after it
AfterBarCreated(logger) ==
    IF ENABLE_PROGRESS_BARS
    THEN addHandlers(handlers_clear(logger), logger.handlers)
    ELSE logger

\* the root logger after the update of an overall bar that exists: with
\* DISABLE_LOGGING_DURING_PROGRESS the level is saved, set to ERROR for the
\* update and set back in the "finally" clause, whether or not it raised
AfterBarUpdated(logger) ==
    IF overall_progress_bar.state # "none" /\ DISABLE_LOGGING_DURING_PROGRESS
    THEN setLevel(setLevel(logger, "ERROR"), logger.level)
    ELSE logger

\* "overall_progress_bar = tqdm(total=total_documents, ...)" when progress
\* bars are enabled
NewBar == IF ENABLE_PROGRESS_BARS THEN [state |-> "open", n |-> 0] ELSE NoBar

\* overall_progress_bar.update(len(batch_documents)) of a bar that exists
BarUpdate(bar, k) ==
    IF bar.state = "none" THEN bar ELSE [bar EXCEPT !.n = @ + k]

\* (variant: the bar is left as it is when the orchestrator is left)
CloseBarSkipped(bar) == bar

\* "finally: if overall_progress_bar: overall_progress_bar.close()"
CloseBar(bar) ==
    IF bar.state = "none" THEN bar ELSE [bar EXCEPT !.state = "closed"]

\* (variant: a delay follows every batch)
DelayAfterEvery(k) == TRUE

\* "if batch_num < num_batches - 1": a delay follows batch k (0-based)
DelayAfter(k) == k < results.total_batches - 1

\* (variant: the caller is handed a fresh, empty dictionary)
ReturnedEmpty(value) == [kind |-> "returned", value |-> NoJobStats]

\* "return results" / "return process_documents_parallel(...)"
Returned(value) == [kind |-> "returned", value |-> value]

\* an exception leaves the orchestrator: its caller gets the exception, the
\* results dictionary is a local of the frame that is left
Raised == [kind |-> "raised", value |-> NoJobStats]

\* "if not ENABLE_BATCH_PROCESSING: return process_documents_parallel(...)"
CallUnbatched ==
    /\ bp_pc = "call"
    /\ ~ENABLE_BATCH_PROCESSING
    /\ bp_pc' = "direct"
    /\ mt_pc' = "call"
    /\ batch_start' = 0
    /\ batch_end' = Len(documents)
    /\ UNCHANGED <<config, toolVars, batch_num, results, poolVars, jobVars>>

\* the pool invocation of an unbatched run returns: its dictionary is the
\* orchestrator's return value
UnbatchedReturn ==
    /\ bp_pc = "direct"
    /\ mt_pc = "returned"
    /\ bp_pc' = "returned"
    /\ mt_pc' = "idle"
    /\ results' = mt_results
    /\ outcome' = Returned(mt_results)
    /\ UNCHANGED <<config, toolVars, batch_num, batch_start, batch_end, poolVars,
                   overall_progress_bar, delays, interrupt>>

\* the pool invocation of an unbatched run raises: so does the orchestrator
UnbatchedRaise ==
    /\ bp_pc = "direct"
    /\ mt_pc = "raised"
    /\ bp_pc' = "raised"
    /\ mt_pc' = "idle"
    /\ outcome' = Raised
    /\ UNCHANGED <<config, toolVars, batch_num, results, batch_start, batch_end,
                   poolVars, overall_progress_bar, delays, interrupt>>

\* batching enabled: create the overall bar, count the batches and set up
\* the results dictionary
CallBatched ==
    /\ bp_pc = "call"
    /\ ENABLE_BATCH_PROCESSING
    /\ overall_progress_bar' = NewBar
    /\ results' = [total_documents |-> Len(documents),
                   total_batches |-> num_batches,
                   successful_conversions |-> 0,
                   failed_conversions |-> 0,
                   batch_results |-> <<>>]
    /\ batch_num' = 0
    /\ bp_pc' = "loop"
    /\ root_logger' = AfterBarCreated(root_logger)
    /\ UNCHANGED <<config, sinkVars, destination, app, mt_pc, batch_start, batch_end, poolVars, delays,
                   outcome, interrupt>>

\* batching enabled and tqdm(...) raises: the statement stands before the
\* "try" of the loop and after handlers.clear(), so the exception leaves
\* process_documents_in_batches with the handlers detached
CallBatchedRaise ==
    /\ bp_pc = "call"
    /\ ENABLE_BATCH_PROCESSING
    /\ ENABLE_PROGRESS_BARS
    /\ root_logger' = handlers_clear(root_logger)
    /\ bp_pc' = "raised"
    /\ outcome' = Raised
    /\ UNCHANGED <<config, sinkVars, destination, app, batch_num, results, mt_pc,
                   batch_start, batch_end, poolVars, overall_progress_bar,
                   delays, interrupt>>

\* one iteration of "for batch_num in range(num_batches)" up to the call of
\* the pool on documents[batch_start:batch_end]
BatchBegin ==
    /\ bp_pc = "loop"
    /\ batch_num < results.total_batches
    /\ batch_start' = BatchStartOf(batch_num)
    /\ batch_end' = BatchEndOf(batch_num)
    /\ mt_pc' = "call"
    /\ bp_pc' = "pool"
    /\ UNCHANGED <<config, toolVars, batch_num, results, poolVars, jobVars>>

\* the pool returned: add its counts to the totals, append the batch's
\* statistics, update the overall bar, then sleep unless this was the last
\* batch; an exception of the update passes the handler ("raise") and the
\* "finally" clause
BatchEnd ==
    /\ bp_pc = "pool"
    /\ mt_pc = "returned"
    /\ results' = [results EXCEPT
          !.successful_conversions = @ + mt_results.successful_conversions,
          !.failed_conversions = @ + mt_results.failed_conversions,
          !.batch_results = Append(@,
              [batch_num |-> batch_num + 1,
               documents_processed |-> batch_end - batch_start,
               successful_conversions |-> mt_results.successful_conversions,
               failed_conversions |-> mt_results.failed_conversions,
               threads_used |-> mt_results.thread_count])]
    /\ mt_pc' = "idle"
    /\ \E pu \in ProgressResults :
          IF pu = "ok"
          THEN /\ overall_progress_bar' =
                     BarUpdate(overall_progress_bar, batch_end - batch_start)
               /\ bp_pc' = IF DelayAfter(batch_num) THEN "sleep" ELSE "loop"
               /\ batch_num' = IF DelayAfter(batch_num)
                               THEN batch_num ELSE batch_num + 1
               /\ delays' = IF DelayAfter(batch_num)
                            THEN delays + 1 ELSE delays
               /\ UNCHANGED outcome
          ELSE /\ overall_progress_bar' = CloseBar(overall_progress_bar)
               /\ bp_pc' = "raised"
               /\ outcome' = Raised
               /\ UNCHANGED <<batch_num, delays>>
    /\ root_logger' = AfterBarUpdated(root_logger)
    /\ UNCHANGED <<config, sinkVars, destination, app, batch_start, batch_end, poolVars, interrupt>>

\* time.sleep(BATCH_DELAY_SECONDS) returns: on to the next batch
BatchSleep ==
    /\ bp_pc = "sleep"
    /\ batch_num' = batch_num + 1
    /\ bp_pc' = "loop"
    /\ UNCHANGED <<config, toolVars, results, mt_pc, batch_start, batch_end, poolVars,
                   jobVars>>

\* the loop is exhausted: the "finally" clause closes the overall bar and
\* the orchestrator returns its results
BatchedReturn ==
    /\ bp_pc = "loop"
    /\ batch_num >= results.total_batches
    /\ bp_pc' = "returned"
    /\ overall_progress_bar' = CloseBar(overall_progress_bar)
    /\ outcome' = Returned(results)
    /\ UNCHANGED <<config, toolVars, batch_num, results, mt_pc, batch_start, batch_end,
                   poolVars, delays, interrupt>>

\* an exception left the pool: "except Exception: ... raise", with the
\* "finally" clause on the way out
BatchedRaise ==
    /\ bp_pc = "pool"
    /\ mt_pc = "raised"
    /\ bp_pc' = "raised"
    /\ mt_pc' = "idle"
    /\ overall_progress_bar' = CloseBar(overall_progress_bar)
    /\ outcome' = Raised
    /\ UNCHANGED <<config, toolVars, batch_num, results, batch_start, batch_end,
                   poolVars, delays, interrupt>>

\* ------------------------------------------- MultiThreadProcessor (pool)
orchVars == <<bp_pc, batch_num, results, batch_start, batch_end,
              overall_progress_bar, delays, outcome, interrupt>>

\* what belongs to the threads of the executor
threadVars == <<thread_local, made>>

\* (variant: only the list length decides for the sequential path)
UseSequentialBelowMinimum(n) == n < MIN_FILES_FOR_MULTI_THREADING

\* "not ENABLE_MULTI_THREADING or len(documents) < MIN_FILES_FOR_MULTI_THREADING"
UseSequential(n) ==
    ~ENABLE_MULTI_THREADING \/ n < MIN_FILES_FOR_MULTI_THREADING

\* (variant: the configured maximum is reported whatever the list length)
ThreadCountMax(n) == MAX_WORKER_THREADS

\* 'thread_count': min(MAX_WORKER_THREADS, len(documents))
ThreadCount(n) == Min(MAX_WORKER_THREADS, n)

\* results['successful_conversions'] += 1
CountSuccess(r) ==
    [r EXCEPT !.successful_conversions = @ + 1]

\* results['failed_conversions'] += 1
CountFailure(r) ==
    [r EXCEPT !.failed_conversions = @ + 1]

\* progress_bar.update(1) of a bar that exists
ProgressUpdate(n) == IF ENABLE_PROGRESS_BARS THEN n + 1 ELSE n

\* process_documents_parallel hands the list to the sequential path
EnterSequential ==
    /\ mt_pc = "call"
    /\ UseSequential(batch_end - batch_start)
    /\ mt_results' = [total_documents |-> batch_end - batch_start,
                      successful_conversions |-> 0,
                      failed_conversions |-> 0,
                      thread_count |-> 1]
    /\ progress_bar' = 0
    /\ doc_idx' = batch_start + 1
    /\ mt_pc' = "seq"
    /\ UNCHANGED <<config, toolVars, orchVars, lock, progress_lock, threadVars, item, queue, worker, failed_tracker,
                   processed_files>>

\* ---- sequential path: one document after another on the calling thread
\* the loop goes on to the next document without updating the progress bar
\* ("continue")
SeqContinue(i, it, res, rows) ==
    /\ item' = [item EXCEPT ![i] = [it EXCEPT !.pc = "counted"]]
    /\ mt_results' = res
    /\ failed_tracker' = rows
    /\ doc_idx' = i + 1
    /\ UNCHANGED <<mt_pc, progress_bar>>

\* the loop body ends with progress_bar.update(1), which is outside the
\* try block: an exception it raises leaves the pool invocation
SeqNext(i, it, res, rows, pu) ==
    /\ item' = [item EXCEPT ![i] = [it EXCEPT !.pc = "counted"]]
    /\ mt_results' = res
    /\ failed_tracker' = rows
    /\ IF pu = "ok"
       THEN /\ progress_bar' = ProgressUpdate(progress_bar)
            /\ doc_idx' = i + 1
            /\ mt_pc' = mt_pc
       ELSE /\ mt_pc' = "raised"
            /\ UNCHANGED <<progress_bar, doc_idx>>

\* "except Exception": one PROCESSING_ERROR row, one more failure, then the
\* progress update
SeqExcept(i, it, res, rows, wr, pu) ==
    SeqNext(i, [it EXCEPT !.error_type = "PROCESSING_ERROR",
                          !.raised = TRUE, !.fails = @ + 1],
            CountFailure(res),
            add_failed_conversion(rows, i, "PROCESSING_ERROR", wr), pu)

\* loop head up to the try block: set the bar's description, make the temp
\* directory; neither is guarded
SeqBegin ==
    /\ mt_pc = "seq"
    /\ doc_idx <= batch_end
    /\ item[doc_idx].pc = "pending"
    /\ \E label \in ProgressResults, prep \in VoidResults :
          IF label = "ok" /\ prep = "ok"
          THEN /\ item' = [item EXCEPT ![doc_idx].pc = "download",
                                       ![doc_idx].starts = @ + 1]
               /\ mt_pc' = mt_pc
          ELSE /\ item' = [item EXCEPT ![doc_idx].pc = "escaped",
                                       ![doc_idx].exc = TRUE,
                                       ![doc_idx].raised = TRUE,
                                       ![doc_idx].starts = @ + 1]
               /\ mt_pc' = "raised"
    /\ UNCHANGED <<config, toolVars, orchVars, lock, progress_lock, threadVars, mt_results, doc_idx, queue, worker,
                   failed_tracker, processed_files, progress_bar>>

\* source_blob_monitor.download_blob(document_name, temp_file_path)
SeqDownload ==
    /\ mt_pc = "seq"
    /\ doc_idx <= batch_end
    /\ item[doc_idx].pc = "download"
    /\ \E r \in CallResults, wr \in VoidResults, pu \in ProgressResults :
        LET i == doc_idx
            it == item[i]
        IN  CASE r = "ok" /\ wr = "ok" /\ pu = "ok" ->
                   /\ item' = [item EXCEPT ![i].pc = "convert",
                                           ![i].temp = TRUE]
                   /\ UNCHANGED <<mt_results, failed_tracker, doc_idx, mt_pc,
                                  progress_bar>>
              [] r = "fail" /\ pu = "ok" ->
                   SeqContinue(i, [it EXCEPT !.error_type = "DOWNLOAD_FAILED",
                                             !.fails = @ + 1],
                       CountFailure(mt_results),
                       add_failed_conversion(failed_tracker, i,
                                             "DOWNLOAD_FAILED", wr))
              [] r = "raise" ->
                   SeqExcept(i, it, mt_results, failed_tracker, wr, pu)
              [] OTHER -> FALSE
    /\ UNCHANGED <<config, toolVars, orchVars, lock, progress_lock, threadVars, queue, worker, processed_files>>

\* document_converter.convert_to_pdf(temp_file_path), copy or conversion
SeqConvert ==
    /\ mt_pc = "seq"
    /\ doc_idx <= batch_end
    /\ item[doc_idx].pc = "convert"
    /\ \E r \in CallResults, wr \in VoidResults, pu \in ProgressResults :
        LET i == doc_idx
            it == item[i]
            kind == TransformErrorType(documents[i])
        IN  CASE r = "ok" /\ wr = "ok" /\ pu = "ok" ->
                   /\ item' = [item EXCEPT ![i].pc = "upload"]
                   /\ UNCHANGED <<mt_results, failed_tracker, doc_idx, mt_pc,
                                  progress_bar>>
              [] r = "fail" /\ pu = "ok" ->
                   SeqContinue(i, [it EXCEPT !.error_type = kind,
                                             !.fails = @ + 1],
                       CountFailure(mt_results),
                       add_failed_conversion(failed_tracker, i, kind, wr))
              [] r = "raise" ->
                   SeqExcept(i, it, mt_results, failed_tracker, wr, pu)
              [] OTHER -> FALSE
    /\ UNCHANGED <<config, toolVars, orchVars, lock, progress_lock, threadVars, queue, worker, processed_files>>

\* dest_blob_monitor.upload_blob(converted_file_path, blob_name); a failed
\* upload is recorded and the body goes on to the cleanup
SeqUpload ==
    /\ mt_pc = "seq"
    /\ doc_idx <= batch_end
    /\ item[doc_idx].pc = "upload"
    /\ \E r \in CallResults, wr \in VoidResults, pu \in ProgressResults :
        LET i == doc_idx
            it == item[i]
        IN  CASE r = "ok" /\ wr = "ok" /\ pu = "ok" ->
                   /\ item' = [item EXCEPT ![i].pc = "cleanup",
                                           ![i].success = TRUE,
                                           ![i].succ = @ + 1]
                   /\ processed_files' = processed_files \cup {i}
                   /\ destination' = upload_blob(destination,
                                                 blob_name(documents[i]), i)
                   /\ mt_results' = CountSuccess(mt_results)
                   /\ UNCHANGED <<failed_tracker, doc_idx, mt_pc,
                                  progress_bar>>
              [] r = "fail" /\ pu = "ok" ->
                   /\ item' = [item EXCEPT ![i].pc = "cleanup",
                                           ![i].error_type = "UPLOAD_FAILED",
                                           ![i].fails = @ + 1]
                   /\ mt_results' = CountFailure(mt_results)
                   /\ failed_tracker' = add_failed_conversion(failed_tracker,
                                            i, "UPLOAD_FAILED", wr)
                   /\ UNCHANGED <<processed_files, destination, doc_idx,
                                  mt_pc, progress_bar>>
              [] r = "raise" ->
                   /\ SeqExcept(i, it, mt_results, failed_tracker, wr, pu)
                   /\ UNCHANGED <<processed_files, destination>>
              [] OTHER -> FALSE
    /\ UNCHANGED <<config, sinkVars, root_logger, app, orchVars, lock, progress_lock, threadVars, queue, worker>>

\* cleanup of the downloaded and of the produced file, inside the try
\* block; a cleanup that raises leaves the file whose deletion raised
SeqCleanup ==
    /\ mt_pc = "seq"
    /\ doc_idx <= batch_end
    /\ item[doc_idx].pc = "cleanup"
    /\ \E r \in VoidResults, wr \in VoidResults, pu \in ProgressResults :
        LET i == doc_idx
            it == item[i]
        IN  CASE r = "ok" /\ wr = "ok" ->
                   SeqNext(i, [it EXCEPT !.temp = FALSE], mt_results,
                           failed_tracker, pu)
              [] r = "raise" ->
                   SeqExcept(i, it, mt_results, failed_tracker, wr, pu)
              [] OTHER -> FALSE
    /\ UNCHANGED <<config, toolVars, orchVars, lock, progress_lock, threadVars, queue, worker, processed_files>>

\* the loop is exhausted: close the bar, return the results
SeqReturn ==
    /\ mt_pc = "seq"
    /\ doc_idx > batch_end
    /\ mt_pc' = "returned"
    /\ UNCHANGED <<config, toolVars, orchVars, poolVars>>

Orchestrator ==
    \/ CallUnbatched \/ UnbatchedReturn \/ UnbatchedRaise
    \/ CallBatched \/ BatchBegin \/ BatchEnd \/ BatchSleep
    \/ BatchedReturn \/ BatchedRaise

Sequential ==
    \/ EnterSequential \/ SeqBegin \/ SeqDownload \/ SeqConvert
    \/ SeqUpload \/ SeqCleanup \/ SeqReturn

\* ---- parallel path: ThreadPoolExecutor(max_workers=MAX_WORKER_THREADS)
\* process_documents_parallel takes the multi-threaded path
EnterParallel ==
    /\ mt_pc = "call"
    /\ ~UseSequential(batch_end - batch_start)
    /\ mt_results' = [total_documents |-> batch_end - batch_start,
                      successful_conversions |-> 0,
                      failed_conversions |-> 0,
                      thread_count |-> ThreadCount(batch_end - batch_start)]
    /\ progress_bar' = 0
    /\ doc_idx' = batch_start + 1
    /\ queue' = <<>>
    /\ worker' = [t \in PoolThreads |-> 0]
    /\ thread_local' = NoConverters
    /\ made' = NoneMade
    /\ mt_pc' = "par"
    /\ UNCHANGED <<config, toolVars, orchVars, lock, progress_lock, item, failed_tracker,
                   processed_files>>

\* executor.submit(process_single_document_thread_safe, doc), in list order
Submit ==
    /\ mt_pc = "par"
    /\ doc_idx <= batch_end
    /\ item[doc_idx].pc = "pending"
    /\ queue' = Append(queue, doc_idx)
    /\ item' = [item EXCEPT ![doc_idx].pc = "queued"]
    /\ doc_idx' = doc_idx + 1
    /\ UNCHANGED <<config, toolVars, orchVars, lock, progress_lock, threadVars, mt_pc,
                   mt_results, worker, failed_tracker, processed_files,
                   progress_bar>>

\* (variant: the thread stays bound to the call that ended)
FutureDoneBusy(t, i, it) ==
    /\ item' = [item EXCEPT ![i] = [it EXCEPT !.pc = "done",
                                              !.document_converter = NoConverter]]
    /\ UNCHANGED worker

\* the processor returned or raised on thread t: its frame (with the local
\* document_converter) is gone, the future is done and the thread is free
FutureDone(t, i, it) ==
    /\ item' = [item EXCEPT ![i] = [it EXCEPT !.pc = "done",
                                              !.document_converter = NoConverter]]
    /\ worker' = [worker EXCEPT ![t] = 0]

\* self._progress_lock can be acquired: no thread holds it
ProgressLockFree == progress_lock = {}

\* (variant: a call is taken only while no other call is running)
CanStartAlone(t) == \A u \in PoolThreads : worker[u] = 0

\* thread t of the executor runs no call and can take one from the queue
CanStart(t) == worker[t] = 0

\* a free thread takes the oldest queued document and runs the processor up
\* to the download: the bar's description is set before the try block
\* (inside "with self._progress_lock" when there is a bar), the temp
\* directory is made inside it; the executor's threads are alike, the free
\* thread with the lowest number stands for any of them
WorkerStart(t) ==
    /\ mt_pc \in {"par", "unwinding"}
    /\ CanStart(t)
    /\ \A u \in PoolThreads : u < t => worker[u] # 0
    /\ queue # <<>>
    /\ ENABLE_PROGRESS_BARS => ProgressLockFree
    /\ LET i == Head(queue)
           it == [item[i] EXCEPT !.starts = @ + 1]
       IN  /\ queue' = Tail(queue)
           /\ \E label \in ProgressResults, prep \in VoidResults :
                CASE label = "raise" /\ prep = "ok" ->
                       FutureDone(t, i, [it EXCEPT !.exc = TRUE, !.raised = TRUE])
                  [] label = "ok" /\ prep = "raise" ->
                       FutureDone(t, i,
                           [it EXCEPT !.error_type = "PROCESSING_ERROR",
                                      !.raised = TRUE])
                  [] label = "ok" /\ prep = "ok" ->
                       /\ item' = [item EXCEPT
                                     ![i] = [it EXCEPT !.pc = "download"]]
                       /\ worker' = [worker EXCEPT ![t] = i]
                  [] OTHER -> FALSE
    /\ UNCHANGED <<config, toolVars, orchVars, lock, progress_lock, thread_local, made,
                   mt_pc, mt_results, doc_idx, failed_tracker,
                   processed_files, progress_bar>>

\* (variant: one attribute namespace for all threads, a plain object)
NamespaceShared(t) == 1

\* threading.local(): every thread has an attribute namespace of its own
Namespace(t) == t

\* "hasattr(thread_local, 'converter')" on thread t
HasConverter(t) == thread_local[Namespace(t)] # NoConverter

\* the instance "DocumentConverter()" yields on thread t
NewConverter(t) == [made_by |-> t, no |-> made[t] + 1]

\* source_blob_monitor.download_blob(document_name, temp_file_path); after
\* a successful download get_thread_converter() returns the converter of the
\* thread's namespace, constructing one (which makes OUTPUT_DIR and may
\* raise) when the namespace has none
Download(t) ==
    /\ worker[t] # 0
    /\ item[worker[t]].pc = "download"
    /\ \E r \in CallResults, mk \in VoidResults :
        LET i == worker[t]
            it == item[i]
        IN  /\ (r # "ok" \/ HasConverter(t)) => mk = "ok"
            /\ CASE r = "ok" /\ HasConverter(t) ->
                   /\ item' = [item EXCEPT
                         ![i].pc = "convert",
                         ![i].temp = TRUE,
                         ![i].document_converter = thread_local[Namespace(t)]]
                   /\ UNCHANGED <<worker, thread_local, made>>
              [] r = "ok" /\ ~HasConverter(t) /\ mk = "ok" ->
                   /\ thread_local' = [thread_local EXCEPT
                                         ![Namespace(t)] = NewConverter(t)]
                   /\ made' = [made EXCEPT ![t] = @ + 1]
                   /\ item' = [item EXCEPT
                         ![i].pc = "convert",
                         ![i].temp = TRUE,
                         ![i].document_converter = NewConverter(t)]
                   /\ UNCHANGED worker
              [] r = "ok" /\ ~HasConverter(t) /\ mk = "raise" ->
                   /\ FutureDone(t, i,
                         [it EXCEPT !.error_type = "PROCESSING_ERROR",
                                    !.raised = TRUE, !.temp = TRUE])
                   /\ UNCHANGED <<thread_local, made>>
              [] r = "fail" ->
                   /\ FutureDone(t, i,
                         [it EXCEPT !.error_type = "DOWNLOAD_FAILED"])
                   /\ UNCHANGED <<thread_local, made>>
              [] r = "raise" ->
                   /\ FutureDone(t, i,
                         [it EXCEPT !.error_type = "PROCESSING_ERROR",
                                    !.raised = TRUE])
                   /\ UNCHANGED <<thread_local, made>>
    /\ UNCHANGED <<config, toolVars, orchVars, lock, progress_lock, mt_pc, mt_results,
                   doc_idx, queue, failed_tracker, processed_files,
                   progress_bar>>

\* document_converter.convert_to_pdf(temp_file_path), copy or conversion
Convert(t) ==
    /\ worker[t] # 0
    /\ item[worker[t]].pc = "convert"
    /\ \E r \in CallResults :
        LET i == worker[t]
            it == item[i]
        IN  CASE r = "ok" ->
                   /\ item' = [item EXCEPT ![i].pc = "upload"]
                   /\ UNCHANGED worker
              [] r = "fail" ->
                   FutureDone(t, i,
                       [it EXCEPT !.error_type =
                                      TransformErrorType(documents[i])])
              [] r = "raise" ->
                   FutureDone(t, i,
                       [it EXCEPT !.error_type = "PROCESSING_ERROR",
                                  !.raised = TRUE])
    /\ UNCHANGED <<config, toolVars, orchVars, lock, progress_lock, thread_local, made,
                   mt_pc, mt_results, doc_idx, queue, failed_tracker,
                   processed_files, progress_bar>>

\* (variant: the lock is taken without waiting for its holder)
LockFreeAlways == TRUE

\* self._lock can be acquired: no thread holds it
LockFree == lock = {}

\* dest_blob_monitor.upload_blob(converted_file_path, blob_name); after a
\* successful upload the thread goes on to mark the document as processed
Upload(t) ==
    /\ worker[t] # 0
    /\ item[worker[t]].pc = "upload"
    /\ \E r \in CallResults :
        LET i == worker[t]
            it == item[i]
        IN  CASE r = "ok" ->
                   /\ item' = [item EXCEPT ![i].pc = "mark"]
                   /\ destination' = upload_blob(destination,
                                                 blob_name(documents[i]), i)
                   /\ UNCHANGED worker
              [] r = "fail" ->
                   /\ FutureDone(t, i,
                          [it EXCEPT !.error_type = "UPLOAD_FAILED"])
                   /\ UNCHANGED destination
              [] r = "raise" ->
                   /\ FutureDone(t, i,
                          [it EXCEPT !.error_type = "PROCESSING_ERROR",
                                     !.raised = TRUE])
                   /\ UNCHANGED destination
    /\ UNCHANGED <<config, sinkVars, root_logger, app, orchVars, lock, progress_lock, thread_local, made,
                   mt_pc, mt_results, doc_idx, queue, failed_tracker,
                   processed_files, progress_bar>>

\* "with self._lock: source_blob_monitor.processed_files.add(...)": the
\* thread waits until the lock is free, adds the document inside the "with"
\* block and releases the lock; then result['success'] = True
MarkProcessed(t) ==
    /\ worker[t] # 0
    /\ item[worker[t]].pc = "mark"
    /\ LockFree
    /\ processed_files' = processed_files \cup {worker[t]}
    /\ item' = [item EXCEPT ![worker[t]].pc = "cleanup",
                            ![worker[t]].success = TRUE]
    /\ UNCHANGED <<config, toolVars, orchVars, lock, progress_lock, threadVars, mt_pc,
                   mt_results, doc_idx, queue, worker, failed_tracker,
                   progress_bar>>

\* cleanup of the downloaded and of the produced file, inside the try
\* block: the handler sets error_type and leaves result['success'] alone;
\* a cleanup that raises leaves the file whose deletion raised
Cleanup(t) ==
    /\ worker[t] # 0
    /\ item[worker[t]].pc = "cleanup"
    /\ \E r \in VoidResults :
        LET i == worker[t]
            it == item[i]
        IN  CASE r = "ok" -> FutureDone(t, i, [it EXCEPT !.temp = FALSE])
              [] r = "raise" ->
                   FutureDone(t, i,
                       [it EXCEPT !.error_type = "PROCESSING_ERROR",
                                  !.raised = TRUE])
    /\ UNCHANGED <<config, toolVars, orchVars, lock, progress_lock, thread_local, made,
                   mt_pc, mt_results, doc_idx, queue, failed_tracker,
                   processed_files, progress_bar>>

\* (variant: the invocation returns without waiting for the futures)
AllCollectedNoWait == TRUE

\* every future has been handed out by as_completed and handled
AllCollected == \A i \in PoolDocs : item[i].pc = "counted"

\* positions of a document whose future the collector loop is handling
Collecting == {"collecting", "updating", "handling", "reupdating"}

\* every submitted call has run to its end (the executor's shutdown waits)
AllFinished ==
    \A i \in PoolDocs : item[i].pc \in {"done", "counted"} \cup Collecting

\* one iteration of "for future in as_completed(...)", begun when the
\* previous one is over, up to its first "with self._lock:", that of the
\* try block, or that of the handler when future.result() raises: the main
\* thread waits for the lock and takes it
CollectAcquire(i) ==
    /\ mt_pc = "par"
    /\ doc_idx > batch_end
    /\ item[i].pc = "done"
    /\ \A j \in PoolDocs : item[j].pc \notin Collecting
    /\ LockFree
    /\ lock' = lock \cup {MainThread}
    /\ item' = [item EXCEPT
                  ![i].pc = IF item[i].exc THEN "handling" ELSE "collecting"]
    /\ UNCHANGED <<config, toolVars, orchVars, mt_pc, mt_results, doc_idx, queue,
                   worker, failed_tracker, processed_files, progress_bar,
                   progress_lock, threadVars>>

\* (variant: self._lock is still held when the bar is updated)
AfterWithKept(holders) == holders

\* the end of a "with" block of the main thread releases the block's lock
AfterWith(holders) == holders \ {MainThread}

\* (variant: the progress lock is taken whether or not there is a bar)
ToProgressUpdateAlways(i, it, pc) ==
    /\ ProgressLockFree
    /\ progress_lock' = progress_lock \cup {MainThread}
    /\ item' = [item EXCEPT ![i] = [it EXCEPT !.pc = pc]]

\* the main thread goes on to "if progress_bar: with self._progress_lock:"
\* and takes the progress lock when there is a bar
ToProgressUpdate(i, it, pc) ==
    IF ENABLE_PROGRESS_BARS
    THEN /\ ProgressLockFree
         /\ progress_lock' = progress_lock \cup {MainThread}
         /\ item' = [item EXCEPT ![i] = [it EXCEPT !.pc = pc]]
    ELSE /\ item' = [item EXCEPT ![i] = [it EXCEPT !.pc = "counted"]]
         /\ UNCHANGED progress_lock

\* the "with self._lock" block of the try block: count the result and
\* record a failure, release the lock at the end of the block, then go on
\* to the update of the bar
Collect(i) ==
    /\ mt_pc = "par"
    /\ item[i].pc = "collecting"
    /\ lock' = AfterWith(lock)
    /\ \E wr \in VoidResults :
        LET it == item[i]
        IN  /\ (~it.success \/ wr = "ok")
            /\ mt_results' = IF it.success THEN CountSuccess(mt_results)
                             ELSE CountFailure(mt_results)
            /\ failed_tracker' =
                  IF it.success THEN failed_tracker
                  ELSE add_failed_conversion(failed_tracker, i,
                                             it.error_type, wr)
            /\ ToProgressUpdate(i,
                  [it EXCEPT !.succ = IF it.success THEN @ + 1 ELSE @,
                             !.fails = IF it.success THEN @ ELSE @ + 1],
                  "updating")
    /\ UNCHANGED <<config, toolVars, orchVars, mt_pc, doc_idx, queue, worker,
                   processed_files, progress_bar, threadVars>>

\* progress_bar.update(1) of the try block inside "with
\* self._progress_lock"; when it raises, the block's end releases the
\* progress lock and the handler waits for self._lock and takes it
CollectUpdate(i) ==
    /\ mt_pc = "par"
    /\ item[i].pc = "updating"
    /\ progress_lock' = AfterWith(progress_lock)
    /\ \E pu \in ProgressResults :
          IF pu = "ok"
          THEN /\ progress_bar' = ProgressUpdate(progress_bar)
               /\ item' = [item EXCEPT ![i].pc = "counted"]
               /\ UNCHANGED lock
          ELSE /\ LockFree
               /\ lock' = lock \cup {MainThread}
               /\ item' = [item EXCEPT ![i].pc = "handling"]
               /\ UNCHANGED progress_bar
    /\ UNCHANGED <<config, toolVars, orchVars, mt_pc, mt_results, doc_idx, queue,
                   worker, failed_tracker, processed_files, threadVars>>

\* the handler of the try block, "except Exception": count a failure inside
\* "with self._lock", then go on to update the bar once more
CollectHandler(i) ==
    /\ mt_pc = "par"
    /\ item[i].pc = "handling"
    /\ lock' = AfterWith(lock)
    /\ mt_results' = CountFailure(mt_results)
    /\ ToProgressUpdate(i, [item[i] EXCEPT !.fails = @ + 1], "reupdating")
    /\ UNCHANGED <<config, toolVars, orchVars, mt_pc, doc_idx, queue, worker,
                   failed_tracker, processed_files, progress_bar, threadVars>>

\* progress_bar.update(1) of the handler: an exception it raises leaves the
\* loop and the executor's "with" block
CollectReupdate(i) ==
    /\ mt_pc = "par"
    /\ item[i].pc = "reupdating"
    /\ progress_lock' = AfterWith(progress_lock)
    /\ item' = [item EXCEPT ![i].pc = "counted"]
    /\ \E pu \in ProgressResults :
          IF pu = "ok"
          THEN /\ progress_bar' = ProgressUpdate(progress_bar)
               /\ UNCHANGED mt_pc
          ELSE /\ mt_pc' = "unwinding"
               /\ UNCHANGED progress_bar
    /\ UNCHANGED <<config, toolVars, orchVars, lock, mt_results, doc_idx, queue,
                   worker, failed_tracker, processed_files, threadVars>>

\* the loop is exhausted: leave the executor, whose threads end, close the
\* bar, return; thread_local is a local of the frame that is left
ParReturn ==
    /\ mt_pc = "par"
    /\ doc_idx > batch_end
    /\ AllCollected
    /\ mt_pc' = "returned"
    /\ thread_local' = NoConverters
    /\ made' = NoneMade
    /\ UNCHANGED <<config, toolVars, orchVars, mt_results, doc_idx, item, queue, worker,
                   failed_tracker, processed_files, progress_bar, lock,
                   progress_lock>>

\* an exception left the loop: the executor's shutdown waits for the calls
\* still queued or running, then the exception leaves the pool invocation
ParRaise ==
    /\ mt_pc = "unwinding"
    /\ AllFinished
    /\ mt_pc' = "raised"
    /\ thread_local' = NoConverters
    /\ made' = NoneMade
    /\ UNCHANGED <<config, toolVars, orchVars, mt_results, doc_idx, item, queue, worker,
                   failed_tracker, processed_files, progress_bar, lock,
                   progress_lock>>

Parallel ==
    \/ EnterParallel \/ Submit
    \/ (\E t \in PoolThreads : WorkerStart(t))
    \/ (\E t \in PoolThreads : Download(t))
    \/ (\E t \in PoolThreads : Convert(t))
    \/ (\E t \in PoolThreads : Upload(t))
    \/ (\E t \in PoolThreads : MarkProcessed(t))
    \/ (\E t \in PoolThreads : Cleanup(t))
    \/ (\E i \in PoolDocs : CollectAcquire(i))
    \/ (\E i \in PoolDocs : Collect(i))
    \/ (\E i \in PoolDocs : CollectUpdate(i))
    \/ (\E i \in PoolDocs : CollectHandler(i))
    \/ (\E i \in PoolDocs : CollectReupdate(i))
    \/ ParReturn \/ ParRaise

Next == Orchestrator \/ Sequential \/ Parallel

Spec == Init /\ [][Next]_vars

\* ---- batched runs of longer lists on the pool's sequential path
MaxSeqDocs == 3

InitSeqBatches ==
    /\ ENABLE_MULTI_THREADING = FALSE
    /\ MAX_WORKER_THREADS = 1
    /\ MIN_FILES_FOR_MULTI_THREADING = 1
    /\ ENABLE_BATCH_PROCESSING = TRUE
    /\ BATCH_SIZE \in 1..MaxBatchSize
    /\ ENABLE_PROGRESS_BARS = FALSE
    /\ documents \in {create_test_documents(n) : n \in 0..MaxSeqDocs}
    /\ bp_pc = "call"
    /\ batch_num = 0
    /\ results = NoJobStats
    /\ mt_pc = "idle"
    /\ batch_start = 0
    /\ batch_end = 0
    /\ mt_results = NoResults
    /\ doc_idx = 0
    /\ item = [i \in 1..Len(documents) |-> NewItem]
    /\ queue = <<>>
    /\ worker = [t \in PoolThreads |-> 0]
    /\ failed_tracker = <<>>
    /\ processed_files = {}
    /\ progress_bar = 0
    /\ lock = {}
    /\ progress_lock = {}
    /\ thread_local = NoConverters
    /\ made = NoneMade
    /\ overall_progress_bar = NoBar
    /\ delays = 0
    /\ outcome = NoOutcome
    /\ interrupt = NoInterrupt
    /\ BATCH_DELAY_SECONDS = DefaultBatchDelay
    /\ clock = 0
    /\ reply = NoReply
    /\ clearing = NotClearing
    /\ DISABLE_LOGGING_DURING_PROGRESS = TRUE
    /\ root_logger = basicConfig
    /\ destination = NoBlobs
    /\ app = NotStarted

NextSeqBatches ==
    \/ CallBatched \/ BatchBegin \/ BatchEnd \/ BatchSleep
    \/ BatchedReturn \/ BatchedRaise
    \/ Sequential

SpecSeqBatches == InitSeqBatches /\ [][NextSeqBatches]_vars

\* ---- single pool invocations: the unbatched runs without progress bars,
\* around the minimum for multi-threading; no bar is labelled or updated
\* and future.result() does not raise, so the handler of the collector
\* loop and its updates are never entered
InitPool ==
    /\ ENABLE_MULTI_THREADING \in BOOLEAN
    /\ MAX_WORKER_THREADS \in 1..MaxWorkers
    /\ MIN_FILES_FOR_MULTI_THREADING \in 1..MaxMinFiles
    /\ ENABLE_BATCH_PROCESSING = FALSE
    /\ BATCH_SIZE \in BatchSizes
    /\ ENABLE_PROGRESS_BARS = FALSE
    /\ documents \in {create_test_documents(n) : n \in 0..MaxDocs}
    /\ bp_pc = "call"
    /\ batch_num = 0
    /\ results = NoJobStats
    /\ mt_pc = "idle"
    /\ batch_start = 0
    /\ batch_end = 0
    /\ mt_results = NoResults
    /\ doc_idx = 0
    /\ item = [i \in 1..Len(documents) |-> NewItem]
    /\ queue = <<>>
    /\ worker = [t \in PoolThreads |-> 0]
    /\ failed_tracker = <<>>
    /\ processed_files = {}
    /\ progress_bar = 0
    /\ lock = {}
    /\ progress_lock = {}
    /\ thread_local = NoConverters
    /\ made = NoneMade
    /\ overall_progress_bar = NoBar
    /\ delays = 0
    /\ outcome = NoOutcome
    /\ interrupt = NoInterrupt
    /\ BATCH_DELAY_SECONDS = DefaultBatchDelay
    /\ clock = 0
    /\ reply = NoReply
    /\ clearing = NotClearing
    /\ DISABLE_LOGGING_DURING_PROGRESS = TRUE
    /\ root_logger = basicConfig
    /\ destination = NoBlobs
    /\ app = NotStarted

NextPool ==
    \/ CallUnbatched \/ UnbatchedReturn \/ UnbatchedRaise
    \/ Sequential
    \/ EnterParallel \/ Submit
    \/ (\E t \in PoolThreads : WorkerStart(t))
    \/ (\E t \in PoolThreads : Download(t))
    \/ (\E t \in PoolThreads : Convert(t))
    \/ (\E t \in PoolThreads : Upload(t))
    \/ (\E t \in PoolThreads : MarkProcessed(t))
    \/ (\E t \in PoolThreads : Cleanup(t))
    \/ (\E i \in PoolDocs : CollectAcquire(i))
    \/ (\E i \in PoolDocs : Collect(i))
    \/ ParReturn

SpecPool == InitPool /\ [][NextPool]_vars

\* ---- single pool invocations on the parallel path with progress bars
InitBars ==
    /\ ENABLE_MULTI_THREADING = TRUE
    /\ MAX_WORKER_THREADS \in 1..MaxWorkers
    /\ MIN_FILES_FOR_MULTI_THREADING = 1
    /\ ENABLE_BATCH_PROCESSING = FALSE
    /\ BATCH_SIZE \in BatchSizes
    /\ ENABLE_PROGRESS_BARS = TRUE
    /\ documents \in {create_test_documents(n) : n \in 0..MaxDocs}
    /\ bp_pc = "call"
    /\ batch_num = 0
    /\ results = NoJobStats
    /\ mt_pc = "idle"
    /\ batch_start = 0
    /\ batch_end = 0
    /\ mt_results = NoResults
    /\ doc_idx = 0
    /\ item = [i \in 1..Len(documents) |-> NewItem]
    /\ queue = <<>>
    /\ worker = [t \in PoolThreads |-> 0]
    /\ failed_tracker = <<>>
    /\ processed_files = {}
    /\ progress_bar = 0
    /\ lock = {}
    /\ progress_lock = {}
    /\ thread_local = NoConverters
    /\ made = NoneMade
    /\ overall_progress_bar = NoBar
    /\ delays = 0
    /\ outcome = NoOutcome
    /\ interrupt = NoInterrupt
    /\ BATCH_DELAY_SECONDS = DefaultBatchDelay
    /\ clock = 0
    /\ reply = NoReply
    /\ clearing = NotClearing
    /\ DISABLE_LOGGING_DURING_PROGRESS = TRUE
    /\ root_logger = basicConfig
    /\ destination = NoBlobs
    /\ app = NotStarted

NextBars ==
    \/ CallUnbatched \/ UnbatchedReturn \/ UnbatchedRaise
    \/ Parallel

SpecBars == InitBars /\ [][NextBars]_vars

\* ---- batched runs of two or more batches on either path of the pool,
\* every batch reaching the minimum for multi-threading
InitBatches ==
    /\ ENABLE_MULTI_THREADING \in BOOLEAN
    /\ MAX_WORKER_THREADS \in 1..MaxWorkers
    /\ MIN_FILES_FOR_MULTI_THREADING = 1
    /\ ENABLE_BATCH_PROCESSING = TRUE
    /\ BATCH_SIZE \in BatchSizes
    /\ ENABLE_PROGRESS_BARS \in BOOLEAN
    /\ documents \in {create_test_documents(n) : n \in 0..MaxDocs}
    /\ Len(documents) > BATCH_SIZE
    /\ bp_pc = "call"
    /\ batch_num = 0
    /\ results = NoJobStats
    /\ mt_pc = "idle"
    /\ batch_start = 0
    /\ batch_end = 0
    /\ mt_results = NoResults
    /\ doc_idx = 0
    /\ item = [i \in 1..Len(documents) |-> NewItem]
    /\ queue = <<>>
    /\ worker = [t \in PoolThreads |-> 0]
    /\ failed_tracker = <<>>
    /\ processed_files = {}
    /\ progress_bar = 0
    /\ lock = {}
    /\ progress_lock = {}
    /\ thread_local = NoConverters
    /\ made = NoneMade
    /\ overall_progress_bar = NoBar
    /\ delays = 0
    /\ outcome = NoOutcome
    /\ interrupt = NoInterrupt
    /\ BATCH_DELAY_SECONDS = DefaultBatchDelay
    /\ clock = 0
    /\ reply = NoReply
    /\ clearing = NotClearing
    /\ DISABLE_LOGGING_DURING_PROGRESS = TRUE
    /\ root_logger = basicConfig
    /\ destination = NoBlobs
    /\ app = NotStarted

NextBatches ==
    \/ CallBatched \/ BatchBegin \/ BatchEnd \/ BatchSleep
    \/ BatchedReturn \/ BatchedRaise
    \/ Sequential \/ Parallel

SpecBatches == InitBatches /\ [][NextBatches]_vars

\* ---- single parallel pool invocations over documents of one file name,
\* without progress bars
InitSameNames ==
    /\ ENABLE_MULTI_THREADING = TRUE
    /\ MAX_WORKER_THREADS \in 1..MaxWorkers
    /\ MIN_FILES_FOR_MULTI_THREADING = 1
    /\ ENABLE_BATCH_PROCESSING = FALSE
    /\ BATCH_SIZE \in BatchSizes
    /\ ENABLE_PROGRESS_BARS = FALSE
    /\ documents \in {same_name_documents(n) : n \in 1..MaxDocs}
    /\ bp_pc = "call"
    /\ batch_num = 0
    /\ results = NoJobStats
    /\ mt_pc = "idle"
    /\ batch_start = 0
    /\ batch_end = 0
    /\ mt_results = NoResults
    /\ doc_idx = 0
    /\ item = [i \in 1..Len(documents) |-> NewItem]
    /\ queue = <<>>
    /\ worker = [t \in PoolThreads |-> 0]
    /\ failed_tracker = <<>>
    /\ processed_files = {}
    /\ progress_bar = 0
    /\ lock = {}
    /\ progress_lock = {}
    /\ thread_local = NoConverters
    /\ made = NoneMade
    /\ overall_progress_bar = NoBar
    /\ delays = 0
    /\ outcome = NoOutcome
    /\ interrupt = NoInterrupt
    /\ BATCH_DELAY_SECONDS = DefaultBatchDelay
    /\ clock = 0
    /\ reply = NoReply
    /\ clearing = NotClearing
    /\ DISABLE_LOGGING_DURING_PROGRESS = TRUE
    /\ root_logger = basicConfig
    /\ destination = NoBlobs
    /\ app = NotStarted

NextSameNames ==
    \/ CallUnbatched \/ UnbatchedReturn
    \/ EnterParallel \/ Submit
    \/ (\E t \in PoolThreads : WorkerStart(t))
    \/ (\E t \in PoolThreads : Download(t))
    \/ (\E t \in PoolThreads : Convert(t))
    \/ (\E t \in PoolThreads : Upload(t))
    \/ (\E t \in PoolThreads : MarkProcessed(t))
    \/ (\E t \in PoolThreads : Cleanup(t))
    \/ (\E i \in PoolDocs : CollectAcquire(i))
    \/ (\E i \in PoolDocs : Collect(i))
    \/ ParReturn

SpecSameNames == InitSameNames /\ [][NextSameNames]_vars

\* ---- batched runs that a KeyboardInterrupt may end
\* Ctrl-C: KeyboardInterrupt is raised in the main thread. It is no
\* Exception, so no handler of the pool or of the orchestrator catches it.
\* In the executor's "with" block it ends the collector loop (a "with
\* self._lock" block it leaves releases the lock) and the executor's exit
\* waits for the calls submitted; anywhere else it leaves the pool and the
\* orchestrator at once, whose "finally" clause closes the overall bar.
Interrupt ==
    /\ bp_pc \in {"loop", "pool", "sleep"}
    /\ mt_pc # "unwinding"
    /\ ~interrupt.arrived
    /\ interrupt' = [arrived |-> TRUE, batch_num |-> batch_num,
                     rows |-> failed_tracker,
                     stats |-> results.batch_results]
    /\ IF mt_pc = "par"
       THEN /\ mt_pc' = "unwinding"
            /\ lock' = lock \ {MainThread}
            /\ progress_lock' = progress_lock \ {MainThread}
            /\ UNCHANGED <<bp_pc, overall_progress_bar, outcome>>
       ELSE /\ mt_pc' = "idle"
            /\ bp_pc' = "raised"
            /\ overall_progress_bar' = CloseBar(overall_progress_bar)
            /\ outcome' = Raised
            /\ UNCHANGED <<lock, progress_lock>>
    /\ UNCHANGED <<config, toolVars, batch_num, results, batch_start, batch_end,
                   delays, mt_results, doc_idx, item, queue, worker,
                   failed_tracker, processed_files, progress_bar,
                   threadVars>>

InitInterrupt ==
    /\ ENABLE_MULTI_THREADING \in BOOLEAN
    /\ MAX_WORKER_THREADS \in 1..MaxWorkers
    /\ MIN_FILES_FOR_MULTI_THREADING = 1
    /\ ENABLE_BATCH_PROCESSING = TRUE
    /\ BATCH_SIZE \in 1..MaxBatchSize
    /\ ENABLE_PROGRESS_BARS \in BOOLEAN
    /\ documents \in {create_test_documents(n) : n \in 0..MaxDocs}
    /\ bp_pc = "call"
    /\ batch_num = 0
    /\ results = NoJobStats
    /\ mt_pc = "idle"
    /\ batch_start = 0
    /\ batch_end = 0
    /\ mt_results = NoResults
    /\ doc_idx = 0
    /\ item = [i \in 1..Len(documents) |-> NewItem]
    /\ queue = <<>>
    /\ worker = [t \in PoolThreads |-> 0]
    /\ failed_tracker = <<>>
    /\ processed_files = {}
    /\ progress_bar = 0
    /\ lock = {}
    /\ progress_lock = {}
    /\ thread_local = NoConverters
    /\ made = NoneMade
    /\ overall_progress_bar = NoBar
    /\ delays = 0
    /\ outcome = NoOutcome
    /\ interrupt = NoInterrupt
    /\ BATCH_DELAY_SECONDS = DefaultBatchDelay
    /\ clock = 0
    /\ reply = NoReply
    /\ clearing = NotClearing
    /\ DISABLE_LOGGING_DURING_PROGRESS = TRUE
    /\ root_logger = basicConfig
    /\ destination = NoBlobs
    /\ app = NotStarted

NextInterrupt ==
    \/ CallBatched \/ BatchBegin \/ BatchEnd \/ BatchSleep
    \/ BatchedReturn \/ BatchedRaise
    \/ Sequential \/ Parallel
    \/ Interrupt

SpecInterrupt == InitInterrupt /\ [][NextInterrupt]_vars

\* ---- unbatched runs on the pool's threads with and without progress
\* bars, in which the calls of the bar return
\* no processor was left by an exception of set_description
LabelReturned == \A i \in PoolDocs : ~item[i].exc

InitQuietBars ==
    /\ ENABLE_MULTI_THREADING = TRUE
    /\ MAX_WORKER_THREADS \in 1..MaxWorkers
    /\ MIN_FILES_FOR_MULTI_THREADING = 1
    /\ ENABLE_BATCH_PROCESSING = FALSE
    /\ BATCH_SIZE \in BatchSizes
    /\ ENABLE_PROGRESS_BARS \in BOOLEAN
    /\ documents \in {create_test_documents(n) : n \in 1..MaxDocs}
    /\ bp_pc = "call"
    /\ batch_num = 0
    /\ results = NoJobStats
    /\ mt_pc = "idle"
    /\ batch_start = 0
    /\ batch_end = 0
    /\ mt_results = NoResults
    /\ doc_idx = 0
    /\ item = [i \in 1..Len(documents) |-> NewItem]
    /\ queue = <<>>
    /\ worker = [t \in PoolThreads |-> 0]
    /\ failed_tracker = <<>>
    /\ processed_files = {}
    /\ progress_bar = 0
    /\ lock = {}
    /\ progress_lock = {}
    /\ thread_local = NoConverters
    /\ made = NoneMade
    /\ overall_progress_bar = NoBar
    /\ delays = 0
    /\ outcome = NoOutcome
    /\ interrupt = NoInterrupt
    /\ BATCH_DELAY_SECONDS = DefaultBatchDelay
    /\ clock = 0
    /\ reply = NoReply
    /\ clearing = NotClearing
    /\ DISABLE_LOGGING_DURING_PROGRESS = TRUE
    /\ root_logger = basicConfig
    /\ destination = NoBlobs
    /\ app = NotStarted

NextQuietBars ==
    \/ CallUnbatched \/ UnbatchedReturn
    \/ EnterParallel \/ Submit
    \/ (\E t \in PoolThreads : WorkerStart(t) /\ LabelReturned')
    \/ (\E t \in PoolThreads : Download(t))
    \/ (\E t \in PoolThreads : Convert(t))
    \/ (\E t \in PoolThreads : Upload(t))
    \/ (\E t \in PoolThreads : MarkProcessed(t))
    \/ (\E t \in PoolThreads : Cleanup(t))
    \/ (\E i \in PoolDocs : CollectAcquire(i))
    \/ (\E i \in PoolDocs : Collect(i))
    \/ (\E i \in PoolDocs : CollectUpdate(i) /\ item'[i].pc = "counted")
    \/ ParReturn

SpecQuietBars == InitQuietBars /\ [][NextQuietBars]_vars

\* ---- batched runs on the sequential path with the overall bar on or off,
\* with and without the lowering of the log level, tqdm(...) raising or not
InitLogging ==
    /\ ENABLE_MULTI_THREADING = FALSE
    /\ MAX_WORKER_THREADS = 1
    /\ MIN_FILES_FOR_MULTI_THREADING = 1
    /\ ENABLE_BATCH_PROCESSING = TRUE
    /\ BATCH_SIZE \in 1..MaxBatchSize
    /\ ENABLE_PROGRESS_BARS \in BOOLEAN
    /\ documents \in {create_test_documents(n) : n \in 0..MaxDocs}
    /\ bp_pc = "call"
    /\ batch_num = 0
    /\ results = NoJobStats
    /\ mt_pc = "idle"
    /\ batch_start = 0
    /\ batch_end = 0
    /\ mt_results = NoResults
    /\ doc_idx = 0
    /\ item = [i \in 1..Len(documents) |-> NewItem]
    /\ queue = <<>>
    /\ worker = [t \in PoolThreads |-> 0]
    /\ failed_tracker = <<>>
    /\ processed_files = {}
    /\ progress_bar = 0
    /\ lock = {}
    /\ progress_lock = {}
    /\ thread_local = NoConverters
    /\ made = NoneMade
    /\ overall_progress_bar = NoBar
    /\ delays = 0
    /\ outcome = NoOutcome
    /\ interrupt = NoInterrupt
    /\ BATCH_DELAY_SECONDS = DefaultBatchDelay
    /\ clock = 0
    /\ reply = NoReply
    /\ clearing = NotClearing
    /\ DISABLE_LOGGING_DURING_PROGRESS \in BOOLEAN
    /\ root_logger = basicConfig
    /\ destination = NoBlobs
    /\ app = NotStarted

NextLogging ==
    \/ CallBatched \/ CallBatchedRaise
    \/ BatchBegin \/ BatchEnd \/ BatchSleep
    \/ BatchedReturn \/ BatchedRaise
    \/ Sequential

SpecLogging == InitLogging /\ [][NextLogging]_vars

\* ---- batched runs whose threads are scheduled fairly, on either path of
\* the pool, with and without progress bars; every call returns: the steps
\* of an item succeed or fail, nothing raises
InitFair ==
    /\ ENABLE_MULTI_THREADING \in BOOLEAN
    /\ MAX_WORKER_THREADS \in 1..MaxWorkers
    /\ MIN_FILES_FOR_MULTI_THREADING = 1
    /\ ENABLE_BATCH_PROCESSING = TRUE
    /\ BATCH_SIZE \in BatchSizes
    /\ ENABLE_PROGRESS_BARS \in BOOLEAN
    /\ documents \in {create_test_documents(n) : n \in 0..MaxDocs}
    /\ bp_pc = "call"
    /\ batch_num = 0
    /\ results = NoJobStats
    /\ mt_pc = "idle"
    /\ batch_start = 0
    /\ batch_end = 0
    /\ mt_results = NoResults
    /\ doc_idx = 0
    /\ item = [i \in 1..Len(documents) |-> NewItem]
    /\ queue = <<>>
    /\ worker = [t \in PoolThreads |-> 0]
    /\ failed_tracker = <<>>
    /\ processed_files = {}
    /\ progress_bar = 0
    /\ lock = {}
    /\ progress_lock = {}
    /\ thread_local = NoConverters
    /\ made = NoneMade
    /\ overall_progress_bar = NoBar
    /\ delays = 0
    /\ outcome = NoOutcome
    /\ interrupt = NoInterrupt
    /\ BATCH_DELAY_SECONDS = DefaultBatchDelay
    /\ clock = 0
    /\ reply = NoReply
    /\ clearing = NotClearing
    /\ DISABLE_LOGGING_DURING_PROGRESS = TRUE
    /\ root_logger = basicConfig
    /\ destination = NoBlobs
    /\ app = NotStarted

\* no call of the step raised
CallsReturn ==
    /\ bp_pc' # "raised"
    /\ mt_pc' \notin {"raised", "unwinding"}
    /\ \A i \in DOMAIN item' :
          /\ ~item'[i].exc /\ ~item'[i].raised
          /\ item'[i].pc \notin {"handling", "reupdating"}

\* the steps of the thread that calls the orchestrator: its loop, the
\* sequential loop, the submissions and the collector loop of the pool
MainStep ==
    \/ CallBatched \/ BatchBegin \/ (BatchEnd /\ CallsReturn)
    \/ BatchSleep \/ BatchedReturn
    \/ EnterSequential \/ (SeqBegin /\ CallsReturn)
    \/ (SeqDownload /\ CallsReturn) \/ (SeqConvert /\ CallsReturn)
    \/ (SeqUpload /\ CallsReturn) \/ (SeqCleanup /\ CallsReturn)
    \/ SeqReturn
    \/ EnterParallel \/ Submit
    \/ (\E i \in PoolDocs : CollectAcquire(i))
    \/ (\E i \in PoolDocs : Collect(i))
    \/ (\E i \in PoolDocs : CollectUpdate(i) /\ CallsReturn)
    \/ ParReturn

\* the steps of thread t of the executor
WorkerStep(t) ==
    \/ (t \in PoolThreads /\ WorkerStart(t) /\ CallsReturn)
    \/ (t \in PoolThreads /\ Download(t) /\ CallsReturn)
    \/ (t \in PoolThreads /\ Convert(t) /\ CallsReturn)
    \/ (t \in PoolThreads /\ Upload(t) /\ CallsReturn)
    \/ (t \in PoolThreads /\ MarkProcessed(t))
    \/ (t \in PoolThreads /\ Cleanup(t) /\ CallsReturn)

NextFair == MainStep \/ (\E t \in 1..MaxWorkers : WorkerStep(t))

\* every thread that can take a step eventually takes one
SpecFair ==
    /\ InitFair
    /\ [][NextFair]_vars
    /\ WF_vars(MainStep)
    /\ \A t \in 1..MaxWorkers : WF_vars(WorkerStep(t))

\* ---- batched runs that take both paths of the pool: a first batch that
\* reaches the minimum for multi-threading and a last batch of one document
\* that does not, without progress bars
InitMixed ==
    /\ ENABLE_MULTI_THREADING = TRUE
    /\ MAX_WORKER_THREADS \in 1..MaxWorkers
    /\ MIN_FILES_FOR_MULTI_THREADING = MaxMinFiles
    /\ ENABLE_BATCH_PROCESSING = TRUE
    /\ BATCH_SIZE = MaxMinFiles
    /\ ENABLE_PROGRESS_BARS = FALSE
    /\ documents = create_test_documents(MaxMinFiles + 1)
    /\ bp_pc = "call"
    /\ batch_num = 0
    /\ results = NoJobStats
    /\ mt_pc = "idle"
    /\ batch_start = 0
    /\ batch_end = 0
    /\ mt_results = NoResults
    /\ doc_idx = 0
    /\ item = [i \in 1..Len(documents) |-> NewItem]
    /\ queue = <<>>
    /\ worker = [t \in PoolThreads |-> 0]
    /\ failed_tracker = <<>>
    /\ processed_files = {}
    /\ progress_bar = 0
    /\ lock = {}
    /\ progress_lock = {}
    /\ thread_local = NoConverters
    /\ made = NoneMade
    /\ overall_progress_bar = NoBar
    /\ delays = 0
    /\ outcome = NoOutcome
    /\ interrupt = NoInterrupt
    /\ BATCH_DELAY_SECONDS = DefaultBatchDelay
    /\ clock = 0
    /\ reply = NoReply
    /\ clearing = NotClearing
    /\ DISABLE_LOGGING_DURING_PROGRESS = TRUE
    /\ root_logger = basicConfig
    /\ destination = NoBlobs
    /\ app = NotStarted

NextMixed ==
    \/ CallBatched \/ BatchBegin \/ BatchEnd \/ BatchSleep
    \/ BatchedReturn \/ BatchedRaise
    \/ Sequential
    \/ EnterParallel \/ Submit
    \/ (\E t \in PoolThreads : WorkerStart(t))
    \/ (\E t \in PoolThreads : Download(t))
    \/ (\E t \in PoolThreads : Convert(t))
    \/ (\E t \in PoolThreads : Upload(t))
    \/ (\E t \in PoolThreads : MarkProcessed(t))
    \/ (\E t \in PoolThreads : Cleanup(t))
    \/ (\E i \in PoolDocs : CollectAcquire(i))
    \/ (\E i \in PoolDocs : Collect(i))
    \/ ParReturn

SpecMixed == InitMixed /\ [][NextMixed]_vars

\* ===================================== the failure file and its tools
\* (FailedConversionsTracker of failed_conversions.py and the commands of
\* view_failures.py, which run in a process of their own)
MaxRows == 2
MaxDays == 2

HoursPerDay == 24

\* everything of a conversion run except the failure file
convVars == <<bp_pc, batch_num, results, mt_pc, batch_start, batch_end,
              mt_results, doc_idx, item, queue, worker, processed_files,
              progress_bar, lock, progress_lock, thread_local, made,
              overall_progress_bar, delays, outcome, interrupt,
              root_logger, destination>>

\* what the failure tools and the advisers leave alone
runVars == <<convVars, app>>

\* the name of a generated document, as the pieces of its text
document_name(doc) == <<"test_document_", ToString(doc.base), doc.ext>>

\* Python's "q in s" on texts given as their pieces
Contains(q, s) ==
    \E a \in 0..(Len(s) - Len(q)) : SubSeq(s, a + 1, a + Len(q)) = q

\* an absent filter argument (None or the empty string)
NoErrorType == ""
NoFilename == <<>>

\* the error kinds the sink's callers are drawn from
SinkErrorTypes == {"DOWNLOAD_FAILED", "UPLOAD_FAILED"}

\* the file names asked for: a whole name, a part shared by every name,
\* and the extension of the last document
SinkFilenames ==
    {document_name(documents[1]), <<"test_document_">>,
     <<documents[Len(documents)].ext>>}

\* the time windows asked for, in hours
SinkHours == {1, HoursPerDay}

\* rows the reader has taken in when it stops: all of them, or fewer when
\* an error ends the reading (the error is swallowed)
ReadOutcomes == 0..Len(failed_tracker)

\* FailedConversionsTracker.get_failed_conversions: the rows in file order,
\* up to the row at which a read error, if any, ended the loop (an answer
\* keeps the number of rows read beside the rows returned)
get_failed_conversions(rows, k) == SubSeq(rows, 1, k)

\* the test of get_failed_conversions_by_filename: the whole name
ByFilename(f, filename) == document_name(f.filename) = filename

get_failed_conversions_by_filename(rows, k, filename) ==
    SelectSeq(get_failed_conversions(rows, k),
              LAMBDA f : ByFilename(f, filename))

get_failed_conversions_by_error_type(rows, k, error_type) ==
    SelectSeq(get_failed_conversions(rows, k),
              LAMBDA f : f.error_type = error_type)

\* "failure_time >= cutoff_time"
NotOlder(f, cutoff_time) == fromisoformat(f.timestamp) >= cutoff_time

get_recent_failures(rows, k, hours) ==
    SelectSeq(get_failed_conversions(rows, k),
              LAMBDA f : NotOlder(f, clock - hours))

\* view_failures.show_list: the rows it prints
show_list(rows, k, hours, error_type, filename) ==
    LET failures == IF hours > 0 THEN get_recent_failures(rows, k, hours)
                    ELSE get_failed_conversions(rows, k)
        by_type  == IF error_type # NoErrorType
                    THEN SelectSeq(failures,
                                   LAMBDA f : f.error_type = error_type)
                    ELSE failures
    IN  IF filename # NoFilename
        THEN SelectSeq(by_type,
                       LAMBDA f : Contains(filename,
                                           document_name(f.filename)))
        ELSE by_type

\* view_failures.export_failures with export_failures_to_csv: the rows
\* written to the export file; the file name argument is not passed on
export_failures(rows, k, error_type, filename) ==
    IF error_type # NoErrorType
    THEN SelectSeq(get_failed_conversions(rows, k),
                   LAMBDA f : f.error_type = error_type)
    ELSE get_failed_conversions(rows, k)

\* no call of the tracker's readers or of the viewer is under way: the
\* viewer runs one command per process, and a caller takes the answer of
\* one call before it makes the next
NoCallUnderWay == reply = NoReply /\ clearing = NotClearing

\* the caller has taken the answer
Return ==
    /\ reply # NoReply
    /\ reply' = NoReply
    /\ UNCHANGED <<config, runVars, failed_tracker, clock, clearing>>

\* the clock moves on by a day
Tick ==
    /\ NoCallUnderWay
    /\ clock < MaxDays * HoursPerDay
    /\ clock' = clock + HoursPerDay
    /\ UNCHANGED <<config, runVars, failed_tracker, reply, clearing>>

\* a caller of add_failed_conversion
AddFailedConversion(i, error_type, wr) ==
    /\ reply = NoReply
    /\ Len(failed_tracker) < MaxRows
    /\ failed_tracker' = add_failed_conversion(failed_tracker, i,
                                               error_type, wr)
    /\ UNCHANGED <<config, runVars, clock, reply, clearing>>

GetFailedConversions(k) ==
    /\ NoCallUnderWay
    /\ reply' = [op |-> "get_failed_conversions", read |-> k,
                 rows |-> get_failed_conversions(failed_tracker, k)]
    /\ UNCHANGED <<config, runVars, failed_tracker, clock, clearing>>

GetFailedConversionsByFilename(k, filename) ==
    /\ NoCallUnderWay
    /\ reply' = [op |-> "get_failed_conversions_by_filename", read |-> k,
                 filename |-> filename,
                 rows |-> get_failed_conversions_by_filename(
                              failed_tracker, k, filename)]
    /\ UNCHANGED <<config, runVars, failed_tracker, clock, clearing>>

GetFailedConversionsByErrorType(k, error_type) ==
    /\ NoCallUnderWay
    /\ reply' = [op |-> "get_failed_conversions_by_error_type", read |-> k,
                 error_type |-> error_type,
                 rows |-> get_failed_conversions_by_error_type(
                              failed_tracker, k, error_type)]
    /\ UNCHANGED <<config, runVars, failed_tracker, clock, clearing>>

GetRecentFailures(k, hours) ==
    /\ NoCallUnderWay
    /\ reply' = [op |-> "get_recent_failures", read |-> k, hours |-> hours,
                 rows |-> get_recent_failures(failed_tracker, k, hours)]
    /\ UNCHANGED <<config, runVars, failed_tracker, clock, clearing>>

ShowList(k, hours, error_type, filename) ==
    /\ NoCallUnderWay
    /\ reply' = [op |-> "show_list", read |-> k, hours |-> hours,
                 error_type |-> error_type, filename |-> filename,
                 rows |-> show_list(failed_tracker, k, hours, error_type,
                                    filename)]
    /\ UNCHANGED <<config, runVars, failed_tracker, clock, clearing>>

ExportFailures(k, error_type, filename) ==
    /\ NoCallUnderWay
    /\ reply' = [op |-> "export_failures", read |-> k,
                 error_type |-> error_type, filename |-> filename,
                 rows |-> export_failures(failed_tracker, k, error_type,
                                          filename)]
    /\ UNCHANGED <<config, runVars, failed_tracker, clock, clearing>>

\* clear_old_records, first half: reads the file and keeps the rows that
\* are not older than the cutoff
ClearRead(k, days) ==
    /\ NoCallUnderWay
    /\ clearing' = [pc |-> "rewrite", days |-> days,
                    recent_failures |->
                        SelectSeq(get_failed_conversions(failed_tracker, k),
                                  LAMBDA f : NotOlder(f,
                                      clock - days * HoursPerDay)),
                    file_rows |-> Len(failed_tracker)]
    /\ UNCHANGED <<config, runVars, failed_tracker, clock, reply>>

\* what opening the file for writing and writing the kept rows can do
RewriteResults == {"ok", "not opened", "truncated"}

\* the file after open(csv_file_path, 'w') and writerows: the kept rows;
\* the old file when it cannot be opened; an empty file when the writing
\* fails after the file was truncated (the error is swallowed)
rewrite(rows, recent_failures, wr) ==
    IF wr = "ok" THEN recent_failures
    ELSE IF wr = "not opened" THEN rows
    ELSE <<>>

\* clear_old_records, second half: rewrites the file with the kept rows
ClearRewrite(wr) ==
    /\ clearing.pc = "rewrite"
    /\ failed_tracker' = rewrite(failed_tracker, clearing.recent_failures,
                                 wr)
    /\ reply' = [op |-> "clear_old_records", days |-> clearing.days]
    /\ clearing' = NotClearing
    /\ UNCHANGED <<config, runVars, clock>>

InitSink ==
    /\ ENABLE_MULTI_THREADING = TRUE
    /\ MAX_WORKER_THREADS = 1
    /\ MIN_FILES_FOR_MULTI_THREADING = 1
    /\ ENABLE_BATCH_PROCESSING = FALSE
    /\ BATCH_SIZE = 1
    /\ ENABLE_PROGRESS_BARS = FALSE
    /\ documents = create_test_documents(MaxDocs)
    /\ bp_pc = "call"
    /\ batch_num = 0
    /\ results = NoJobStats
    /\ mt_pc = "idle"
    /\ batch_start = 0
    /\ batch_end = 0
    /\ mt_results = NoResults
    /\ doc_idx = 0
    /\ item = [i \in 1..Len(documents) |-> NewItem]
    /\ queue = <<>>
    /\ worker = [t \in PoolThreads |-> 0]
    /\ failed_tracker = <<>>
    /\ processed_files = {}
    /\ progress_bar = 0
    /\ lock = {}
    /\ progress_lock = {}
    /\ thread_local = NoConverters
    /\ made = NoneMade
    /\ overall_progress_bar = NoBar
    /\ delays = 0
    /\ outcome = NoOutcome
    /\ interrupt = NoInterrupt
    /\ BATCH_DELAY_SECONDS = DefaultBatchDelay
    /\ clock = 0
    /\ reply = NoReply
    /\ clearing = NotClearing
    /\ DISABLE_LOGGING_DURING_PROGRESS = TRUE
    /\ root_logger = basicConfig
    /\ destination = NoBlobs
    /\ app = NotStarted

NextSink ==
    \/ Tick
    \/ Return
    \/ \E i \in 1..Len(documents), e \in SinkErrorTypes, wr \in VoidResults :
          AddFailedConversion(i, e, wr)
    \/ \E k \in ReadOutcomes : GetFailedConversions(k)
    \/ \E k \in ReadOutcomes, q \in SinkFilenames :
          GetFailedConversionsByFilename(k, q)
    \/ \E k \in ReadOutcomes, e \in SinkErrorTypes :
          GetFailedConversionsByErrorType(k, e)
    \/ \E k \in ReadOutcomes, h \in SinkHours : GetRecentFailures(k, h)
    \/ \E k \in ReadOutcomes, h \in {0, HoursPerDay},
          e \in {NoErrorType, "DOWNLOAD_FAILED"},
          q \in {NoFilename, <<documents[Len(documents)].ext>>} :
             ShowList(k, h, e, q)
    \/ \E k \in ReadOutcomes, e \in {NoErrorType, "UPLOAD_FAILED"},
          q \in {NoFilename, document_name(documents[1])} :
             ExportFailures(k, e, q)
    \/ \E k \in ReadOutcomes, d \in 1..MaxDays : ClearRead(k, d)
    \/ \E wr \in RewriteResults : ClearRewrite(wr)

SpecSink == InitSink /\ [][NextSink]_vars

\* ============================== the advisers of the BatchProcessor
\* BatchProcessor.get_batch_processing_estimate. The time is kept in
\* sixteenths of a second (time_per_file_seconds is 1.5 / 8 = 3/16); the
\* hours and days derived from it are left out. Only the answer of the
\* enabled case has the keys estimated_time_seconds and
\* time_per_batch_seconds.
get_batch_processing_estimate(total_documents) ==
    IF ~ENABLE_BATCH_PROCESSING
    THEN [estimated_batches |-> 1,
          estimated_time_x16 |-> 0,
          memory_usage_mb |-> 0,
          has_time_per_batch |-> FALSE]
    ELSE LET nb == (total_documents + BATCH_SIZE - 1) \div BATCH_SIZE
         IN  [estimated_batches |-> nb,
              estimated_time_x16 |->
                  nb * (BATCH_SIZE * 3) + (nb - 1) * BATCH_DELAY_SECONDS * 16,
              memory_usage_mb |-> nb * 50,
              has_time_per_batch |-> TRUE]

\* an unflagged setting
SettingOk == [ok |-> TRUE, recommendations |-> <<>>]

\* a flagged setting with its message
Flagged(message) == [ok |-> FALSE, recommendations |-> <<message>>]

\* (variant: a batch size of 100 is flagged too)
check_batch_size_le ==
    IF BATCH_SIZE <= 100
    THEN Flagged("Consider increasing BATCH_SIZE to at least 100 for better efficiency")
    ELSE IF BATCH_SIZE > 10000
    THEN Flagged("Consider decreasing BATCH_SIZE to prevent memory issues")
    ELSE SettingOk

\* "if BATCH_SIZE < 100: ... elif BATCH_SIZE > 10000: ..."
check_batch_size ==
    IF BATCH_SIZE < 100
    THEN Flagged("Consider increasing BATCH_SIZE to at least 100 for better efficiency")
    ELSE IF BATCH_SIZE > 10000
    THEN Flagged("Consider decreasing BATCH_SIZE to prevent memory issues")
    ELSE SettingOk

\* "if MAX_WORKER_THREADS < 4: ... elif MAX_WORKER_THREADS > 32: ..."
check_thread_count ==
    IF MAX_WORKER_THREADS < 4
    THEN Flagged("Consider increasing MAX_WORKER_THREADS to at least 4")
    ELSE IF MAX_WORKER_THREADS > 32
    THEN Flagged("Consider decreasing MAX_WORKER_THREADS to prevent resource exhaustion")
    ELSE SettingOk

\* "if BATCH_DELAY_SECONDS < 1: ... elif BATCH_DELAY_SECONDS > 30: ..."
check_delay ==
    IF BATCH_DELAY_SECONDS < 1
    THEN Flagged("Consider increasing BATCH_DELAY_SECONDS to at least 1 second")
    ELSE IF BATCH_DELAY_SECONDS > 30
    THEN Flagged("Consider decreasing BATCH_DELAY_SECONDS for faster processing")
    ELSE SettingOk

\* BatchProcessor.validate_batch_configuration: the dictionary it returns
validate_batch_configuration ==
    [batch_size_ok |-> check_batch_size.ok,
     thread_count_ok |-> check_thread_count.ok,
     delay_ok |-> check_delay.ok,
     recommendations |-> check_batch_size.recommendations
                            \o check_thread_count.recommendations
                            \o check_delay.recommendations]

\* a call of get_batch_processing_estimate for the list at hand
GetBatchProcessingEstimate ==
    /\ reply = NoReply
    /\ reply' = [op |-> "get_batch_processing_estimate",
                 total_documents |-> Len(documents),
                 estimates |->
                     get_batch_processing_estimate(Len(documents))]
    /\ UNCHANGED <<config, runVars, failed_tracker, clock, clearing>>

\* a call of validate_batch_configuration
ValidateBatchConfiguration ==
    /\ reply = NoReply
    /\ reply' = [op |-> "validate_batch_configuration",
                 validation |-> validate_batch_configuration]
    /\ UNCHANGED <<config, runVars, failed_tracker, clock, clearing>>

\* settings on both sides of every limit the validation knows, small batch
\* sizes for the estimate, and lists of every length up to MaxSeqDocs
InitAdvice ==
    /\ ENABLE_MULTI_THREADING = FALSE
    /\ MAX_WORKER_THREADS \in {3, 4, 32, 33}
    /\ MIN_FILES_FOR_MULTI_THREADING = 1
    /\ ENABLE_BATCH_PROCESSING \in BOOLEAN
    /\ BATCH_SIZE \in (1..MaxBatchSize) \cup {99, 100, 10000, 10001}
    /\ ENABLE_PROGRESS_BARS = FALSE
    /\ BATCH_DELAY_SECONDS \in {0, 1, 30, 31}
    /\ documents \in {create_test_documents(n) : n \in 0..MaxSeqDocs}
    /\ bp_pc = "call"
    /\ batch_num = 0
    /\ results = NoJobStats
    /\ mt_pc = "idle"
    /\ batch_start = 0
    /\ batch_end = 0
    /\ mt_results = NoResults
    /\ doc_idx = 0
    /\ item = [i \in 1..Len(documents) |-> NewItem]
    /\ queue = <<>>
    /\ worker = [t \in PoolThreads |-> 0]
    /\ failed_tracker = <<>>
    /\ processed_files = {}
    /\ progress_bar = 0
    /\ lock = {}
    /\ progress_lock = {}
    /\ thread_local = NoConverters
    /\ made = NoneMade
    /\ overall_progress_bar = NoBar
    /\ delays = 0
    /\ outcome = NoOutcome
    /\ interrupt = NoInterrupt
    /\ clock = 0
    /\ reply = NoReply
    /\ clearing = NotClearing
    /\ DISABLE_LOGGING_DURING_PROGRESS = TRUE
    /\ root_logger = basicConfig
    /\ destination = NoBlobs
    /\ app = NotStarted

\* the advisers, and the start of a run
NextAdvice ==
    \/ GetBatchProcessingEstimate
    \/ ValidateBatchConfiguration
    \/ Return
    \/ CallBatched
    \/ CallUnbatched

SpecAdvice == InitAdvice /\ [][NextAdvice]_vars

\* ======================= the application's polling loop (main.py)
\* jobs counted for one trigger file, and trigger files put by the operator
MaxJobs == 2
MaxTriggers == 2

\* what the polling loop leaves alone: the state of the pool and of the
\* orchestrator, which DocumentConverterApp does not call
loopRest == <<config, sinkVars, root_logger, orchVars, mt_pc, mt_results,
              doc_idx, item, queue, worker, processed_files, progress_bar,
              lock, progress_lock, thread_local, made>>

\* what listing a folder of a container can do; the error is swallowed
ListResults == {"ok", "error"}

\* DocumentConverterApp._process_single_document on document i with the
\* results dl, tr, up, cl of its download, transform, upload and cleanup
\* and the result wr of the failure file's writes: the failure file and the
\* destination container afterwards; every exception ends in the handler,
\* which records a PROCESSING_ERROR
process_single_document(rows, blobs, i, dl, tr, up, cl, wr) ==
    LET doc == documents[i]
        failed(kind) == add_failed_conversion(rows, i, kind, wr)
    IN  CASE dl = "fail" ->
               [rows |-> failed("DOWNLOAD_FAILED"), blobs |-> blobs]
          [] dl = "raise" ->
               [rows |-> failed("PROCESSING_ERROR"), blobs |-> blobs]
          [] dl = "ok" /\ tr = "fail" ->
               [rows |-> failed(TransformErrorType(doc)), blobs |-> blobs]
          [] dl = "ok" /\ tr = "raise" ->
               [rows |-> failed("PROCESSING_ERROR"), blobs |-> blobs]
          [] dl = "ok" /\ tr = "ok" /\ up = "raise" ->
               [rows |-> failed("PROCESSING_ERROR"), blobs |-> blobs]
          [] dl = "ok" /\ tr = "ok" /\ up = "fail" ->
               [rows |-> IF cl = "raise"
                         THEN add_failed_conversion(failed("UPLOAD_FAILED"),
                                  i, "PROCESSING_ERROR", wr)
                         ELSE failed("UPLOAD_FAILED"),
                blobs |-> blobs]
          [] dl = "ok" /\ tr = "ok" /\ up = "ok" ->
               [rows |-> IF cl = "raise" THEN failed("PROCESSING_ERROR")
                         ELSE rows,
                blobs |-> upload_blob(blobs, blob_name(doc), i)]

\* the operator puts a trigger file into the config folder
PutTrigger ==
    /\ ~app.trigger
    /\ app.triggers < MaxTriggers
    /\ app' = [app EXCEPT !.trigger = TRUE, !.triggers = @ + 1, !.jobs = 0]
    /\ UNCHANGED <<loopRest, failed_tracker, destination>>

\* "if self.main_blob_monitor.check_for_trigger_file():" of the loop: with
\* the trigger file found, process_documents() is called; without it, or
\* when the listing fails, the loop goes on to its sleep
CheckForTrigger ==
    /\ app.pc = "poll"
    /\ app.jobs < MaxJobs
    /\ \E r \in ListResults :
          IF app.trigger /\ r = "ok"
          THEN app' = [app EXCEPT !.pc = "config", !.jobs = @ + 1]
          ELSE app' = [app EXCEPT !.pc = "sleep"]
    /\ UNCHANGED <<loopRest, failed_tracker, destination>>

\* process_documents up to the creation of the two blob monitors: an
\* exception of get_trigger_file_config() or of BlobMonitor(...) is logged by
\* the handler and the method returns after its "finally" clause
GetTriggerFileConfig ==
    /\ app.pc = "config"
    /\ \E r \in VoidResults :
          app' = [app EXCEPT !.pc = IF r = "ok" THEN "listing" ELSE "sleep"]
    /\ UNCHANGED <<loopRest, failed_tracker, destination>>

\* "documents = source_blob_monitor.get_documents_to_convert()", which
\* returns [] when the listing fails; "if not documents: ... return"
GetDocumentsToConvert ==
    /\ app.pc = "listing"
    /\ \E r \in ListResults :
          LET listed == IF r = "ok" THEN documents ELSE <<>>
          IN  IF listed = <<>>
              THEN app' = [app EXCEPT !.pc = "sleep"]
              ELSE app' = [app EXCEPT !.pc = "documents", !.doc = 1]
    /\ UNCHANGED <<loopRest, failed_tracker, destination>>

\* one iteration of "for document_name in documents:
\* self._process_single_document(...)"
ProcessSingleDocument ==
    /\ app.pc = "documents"
    /\ app.doc <= Len(documents)
    /\ \E dl \in CallResults, tr \in CallResults, up \in CallResults,
          cl \in VoidResults, wr \in VoidResults :
          LET after == process_single_document(failed_tracker, destination,
                                               app.doc, dl, tr, up, cl, wr)
          IN  /\ Len(after.rows) <= MaxRows
              /\ failed_tracker' = after.rows
              /\ destination' = after.blobs
    /\ app' = [app EXCEPT !.doc = @ + 1]
    /\ UNCHANGED loopRest

\* "self.main_blob_monitor.delete_trigger_file()" after the loop, then the
\* failure summary and the return; delete_trigger_file swallows an error of
\* delete_blob and returns False, which process_documents does not look at
DeleteTriggerFile ==
    /\ app.pc = "documents"
    /\ app.doc > Len(documents)
    /\ \E r \in ListResults :
          app' = [app EXCEPT !.pc = "sleep", !.doc = 0,
                             !.trigger = IF r = "ok" THEN FALSE ELSE @]
    /\ UNCHANGED <<loopRest, failed_tracker, destination>>

\* "time.sleep(POLLING_INTERVAL)" returns: the next poll
Sleep ==
    /\ app.pc = "sleep"
    /\ app' = [app EXCEPT !.pc = "poll"]
    /\ UNCHANGED <<loopRest, failed_tracker, destination>>

InitPolling ==
    /\ ENABLE_MULTI_THREADING = TRUE
    /\ MAX_WORKER_THREADS = 1
    /\ MIN_FILES_FOR_MULTI_THREADING = 1
    /\ ENABLE_BATCH_PROCESSING = FALSE
    /\ BATCH_SIZE = 1
    /\ ENABLE_PROGRESS_BARS = FALSE
    /\ documents \in {create_test_documents(n) : n \in 0..MaxDocs}
    /\ bp_pc = "call"
    /\ batch_num = 0
    /\ results = NoJobStats
    /\ mt_pc = "idle"
    /\ batch_start = 0
    /\ batch_end = 0
    /\ mt_results = NoResults
    /\ doc_idx = 0
    /\ item = [i \in 1..Len(documents) |-> NewItem]
    /\ queue = <<>>
    /\ worker = [t \in PoolThreads |-> 0]
    /\ failed_tracker = <<>>
    /\ processed_files = {}
    /\ progress_bar = 0
    /\ lock = {}
    /\ progress_lock = {}
    /\ thread_local = NoConverters
    /\ made = NoneMade
    /\ overall_progress_bar = NoBar
    /\ delays = 0
    /\ outcome = NoOutcome
    /\ interrupt = NoInterrupt
    /\ BATCH_DELAY_SECONDS = DefaultBatchDelay
    /\ clock = 0
    /\ reply = NoReply
    /\ clearing = NotClearing
    /\ DISABLE_LOGGING_DURING_PROGRESS = TRUE
    /\ root_logger = basicConfig
    /\ destination = NoBlobs
    /\ app = NotStarted

NextPolling ==
    \/ PutTrigger \/ CheckForTrigger \/ GetTriggerFileConfig
    \/ GetDocumentsToConvert \/ ProcessSingleDocument
    \/ DeleteTriggerFile \/ Sleep

SpecPolling == InitPolling /\ [][NextPolling]_vars

\* ======================================================== properties
\* documents whose processing is between its start and its end
InFlight(i) ==
    item[i].pc \in {"download", "convert", "upload", "mark", "cleanup"}

\* documents whose result (success or failure) has been decided
OutcomeReached(i) ==
    item[i].pc \in {"cleanup", "done", "counted", "escaped"} \cup Collecting

\* the invocation of the pool is under way or has just returned
PoolActive == mt_pc \in {"seq", "par", "unwinding"}

PoolSize == batch_end - batch_start

\* rows of the failure file that belong to document i
RowsOf(i) == {k \in DOMAIN failed_tracker : failed_tracker[k].item = i}

\* the batch (0-based) that list position i falls into
BatchOf(i) == (i - 1) \div BATCH_SIZE

\* ceil(n / b), stated without the code's arithmetic
CeilDiv(n, b) == CHOOSE q \in 0..n : q * b >= n /\ (q = 0 \/ (q - 1) * b < n)

RECURSIVE SumProcessed(_)
SumProcessed(brs) ==
    IF brs = <<>> THEN 0
    ELSE Head(brs).documents_processed + SumProcessed(Tail(brs))

\* ---------------------------------------------------------------- C1
\* C1: when a run over N items returns (a pool invocation on either path,
\* or a batched run), successful_conversions + failed_conversions = N; and
\* during the run successes + failures never exceeds the number of items
\* whose outcome has been reached.
C1_TotalsEqualItems ==
    /\ mt_pc = "returned" =>
          /\ mt_results.total_documents = PoolSize
          /\ mt_results.successful_conversions
               + mt_results.failed_conversions = PoolSize
    /\ bp_pc = "returned" =>
          results.successful_conversions + results.failed_conversions
             = Len(documents)
    /\ PoolActive =>
          mt_results.successful_conversions + mt_results.failed_conversions
             <= Cardinality({i \in PoolDocs : OutcomeReached(i)})

\* ---------------------------------------------------------------- C2
\* C2: in a pool invocation the processing of each item is started exactly
\* once and exactly one outcome per item is counted: never two starts,
\* never two counts, and at return every item was started and counted once.
C2_ExactlyOnce ==
    /\ \A i \in DOMAIN item :
          /\ item[i].starts <= 1
          /\ item[i].succ + item[i].fails <= 1
    /\ mt_pc = "returned" =>
          \A i \in PoolDocs :
             /\ item[i].starts = 1
             /\ item[i].succ + item[i].fails = 1

\* ---------------------------------------------------------------- C3
\* C3: the orchestrator forms ceil(N/B) batches; batch k is the slice
\* [k*B, min((k+1)*B, N)), which begins where the batches before it ended
\* (no gap, no overlap) and is not empty; every batch but the last has B
\* items, the last has N - B*(batchCount - 1) and ends at N; the sizes of
\* the batches of a completed run sum to N.
C3_BatchesPartition ==
    (ENABLE_BATCH_PROCESSING /\ bp_pc # "call") =>
       LET N == Len(documents)
           B == BATCH_SIZE
           count == results.total_batches
       IN  /\ count = CeilDiv(N, B)
           /\ bp_pc = "pool" =>
                 /\ batch_num < count
                 /\ Len(results.batch_results) = batch_num
                 /\ batch_start = batch_num * B
                 /\ batch_end = Min((batch_num + 1) * B, N)
                 /\ batch_start = SumProcessed(results.batch_results)
                 /\ batch_start < batch_end
                 /\ batch_num < count - 1 => batch_end - batch_start = B
                 /\ batch_num = count - 1 =>
                       /\ batch_end = N
                       /\ batch_end - batch_start = N - B * (count - 1)
           /\ bp_pc = "returned" =>
                 /\ Len(results.batch_results) = count
                 /\ SumProcessed(results.batch_results) = N

\* a second batch that is shorter than the batch size is being processed
C3_Witness ==
    /\ ENABLE_BATCH_PROCESSING
    /\ bp_pc = "pool"
    /\ batch_num >= 1
    /\ batch_end - batch_start < BATCH_SIZE
    /\ \E i \in PoolDocs : item[i].pc = "counted"

C5_RaisingItemsContained ==
    mt_pc = "returned" =>
       /\ mt_results.successful_conversions
            + mt_results.failed_conversions = PoolSize
       /\ \A i \in PoolDocs :
             IF item[i].raised
             THEN /\ item[i].error_type = "PROCESSING_ERROR"
                  /\ ~item[i].success
                  /\ item[i].fails = 1
                  /\ item[i].succ = 0
             ELSE \/ /\ item[i].success
                     /\ item[i].error_type = "None"
                     /\ item[i].succ = 1
                     /\ item[i].fails = 0
                  \/ /\ ~item[i].success
                     /\ item[i].error_type \in ErrorTypes \ {"PROCESSING_ERROR"}
                     /\ item[i].succ = 0
                     /\ item[i].fails = 1

\* ---------------------------------------------------------------- C6
\* C6: no exception raised by a step of an item's processing leaves the
\* per-item processing; each is turned into an outcome of kind
\* PROCESSING_ERROR.
C6_NoExceptionEscapes ==
    \A i \in DOMAIN item :
       /\ ~item[i].exc
       /\ (item[i].raised /\ item[i].pc \in {"done", "counted"}) =>
             item[i].error_type = "PROCESSING_ERROR"

\* ---------------------------------------------------------------- C7
\* C7: the failure file holds exactly one row for every failure counted,
\* none for an item counted as successful, each row carries the item's
\* failure kind, and at return the failure count equals the number of rows
\* appended by the invocation.
C7_OneRowPerFailure ==
    /\ \A i \in DOMAIN item :
          /\ Cardinality(RowsOf(i)) = item[i].fails
          /\ item[i].succ > 0 => RowsOf(i) = {}
          /\ \A k \in RowsOf(i) :
                failed_tracker[k].error_type = item[i].error_type
    /\ bp_pc = "returned" =>
          results.failed_conversions = Len(failed_tracker)

C9_BoundedConcurrency ==
    LET k == Cardinality({i \in DOMAIN item : InFlight(i)})
    IN  /\ k <= MAX_WORKER_THREADS
        /\ mt_pc \in {"par", "unwinding"} =>
              k <= Min(MAX_WORKER_THREADS, PoolSize)
        /\ mt_pc = "seq" => k <= 1

\* every pool thread is busy while a further item waits in the queue
C9_Witness ==
    /\ mt_pc = "par"
    /\ queue # <<>>
    /\ Cardinality({i \in PoolDocs : InFlight(i)}) = MAX_WORKER_THREADS

\* ---------------------------------------------------------------- C10
\* C10 (as stated): if N < MIN_FILES_FOR_MULTI_THREADING the reported
\* worker count is 1 and the items run on the sequential path, all N of
\* them processed at return; otherwise the worker count is
\* min(MAX_WORKER_THREADS, N).
C10_ThresholdOnly ==
    (PoolActive \/ mt_pc = "returned") =>
       IF PoolSize < MIN_FILES_FOR_MULTI_THREADING
       THEN /\ mt_results.thread_count = 1
            /\ mt_pc \in {"seq", "returned"}
            /\ \A t \in DOMAIN worker : worker[t] = 0
            /\ mt_pc = "returned" =>
                  \A i \in PoolDocs : item[i].pc = "counted"
       ELSE mt_results.thread_count = Min(MAX_WORKER_THREADS, PoolSize)

\* C10 (amended): if multi-threading is disabled or
\* N < MIN_FILES_FOR_MULTI_THREADING the reported worker count is 1 and the
\* items run on the sequential path, all N of them processed at return;
\* otherwise the worker count is min(MAX_WORKER_THREADS, N).
C10_ThresholdOrDisabled ==
    (PoolActive \/ mt_pc = "returned") =>
       IF ~ENABLE_MULTI_THREADING
             \/ PoolSize < MIN_FILES_FOR_MULTI_THREADING
       THEN /\ mt_results.thread_count = 1
            /\ mt_pc \in {"seq", "returned"}
            /\ \A t \in DOMAIN worker : worker[t] = 0
            /\ mt_pc = "returned" =>
                  \A i \in PoolDocs : item[i].pc = "counted"
       ELSE /\ mt_results.thread_count = Min(MAX_WORKER_THREADS, PoolSize)
            /\ mt_pc \in {"par", "unwinding", "returned"}

\* a list shorter than the minimum was processed on the sequential path
\* although multi-threading is enabled
C10_Witness ==
    /\ mt_pc = "returned"
    /\ ENABLE_MULTI_THREADING
    /\ PoolSize >= 1
    /\ PoolSize < MIN_FILES_FOR_MULTI_THREADING
    /\ mt_results.thread_count = 1
    /\ \A i \in PoolDocs : item[i].pc = "counted"

OnParallelPath == mt_pc \in {"par", "unwinding"}

\* increments of either counter made for the items of the pool's slice
CountedSuccesses == Cardinality({i \in PoolDocs : item[i].succ >= 1})

CountedFailures ==
    Cardinality({i \in PoolDocs : item[i].fails >= 1})
       + Cardinality({i \in PoolDocs : item[i].fails >= 2})

\* C12: during a parallel pool invocation every change of the success and
\* failure counters and of the failure file is made by the main thread
\* while it holds the aggregator lock, every addition to the processed-items
\* set is made by a worker in a critical section entered while no other
\* thread holds the lock; the lock never has two holders, and no update is
\* lost: the counters equal the increments made and the set holds every
\* item marked.
C12_MutationsUnderLock ==
    /\ [](Cardinality(lock) <= 1)
    /\ [](OnParallelPath =>
             /\ mt_results.successful_conversions = CountedSuccesses
             /\ mt_results.failed_conversions = CountedFailures
             /\ processed_files \cap PoolDocs
                   = {i \in PoolDocs : item[i].success})
    /\ [][OnParallelPath =>
             /\ (mt_results'.successful_conversions
                    # mt_results.successful_conversions
                 \/ mt_results'.failed_conversions
                    # mt_results.failed_conversions
                 \/ failed_tracker' # failed_tracker)
                   => (lock = {MainThread} /\ lock' = {})
             /\ processed_files' # processed_files
                   => /\ lock = {}
                      /\ \E t \in PoolThreads :
                            /\ worker[t] # 0
                            /\ item[worker[t]].pc = "mark"
                            /\ processed_files'
                                  = processed_files \cup {worker[t]}]_vars

\* a worker waits to mark its document while the main thread holds the lock
\* to count the result of another
C12_Witness ==
    /\ mt_pc = "par"
    /\ lock = {MainThread}
    /\ \E i \in PoolDocs : item[i].pc = "collecting"
    /\ \E t \in PoolThreads :
          worker[t] # 0 /\ item[worker[t]].pc = "mark"

\* ---------------------------------------------------------------- C13
\* the processing of document i has ended
Ended(i) == item[i].pc \in {"done", "counted", "escaped"} \cup Collecting

\* C13: once the processing of an item has ended, whatever its outcome
\* (success, DOWNLOAD_FAILED, CONVERSION_FAILED, COPY_FAILED, UPLOAD_FAILED,
\* PROCESSING_ERROR) and on either path, none of its local temporary files
\* is left: the cleanup has followed the outcome.
C13_TempFilesDeleted ==
    \A i \in DOMAIN item : Ended(i) => ~item[i].temp

\* ---------------------------------------------------------------- C14
\* document i is in one of the three stages (the marking follows a
\* successful publish on the parallel path)
InStage(i) == item[i].pc \in {"download", "convert", "upload", "mark"}

\* C14: an item enters the fetch first, the transform only from a fetch
\* that succeeded and the publish only from a transform that succeeded; a
\* stage that fails (returns nothing, without raising) ends the item's
\* stages with that stage's kind (DOWNLOAD_FAILED, COPY_FAILED for a
\* copy-as-is item, CONVERSION_FAILED for any other, UPLOAD_FAILED), an item
\* that has a kind never enters a stage again, and an item becomes
\* successful only out of a publish that succeeded.
C14_StagesInOrder ==
    /\ [](\A i \in DOMAIN item :
             /\ item[i].success =>
                   item[i].pc \in {"cleanup", "done", "counted"} \cup Collecting
             /\ InStage(i) => item[i].error_type = "None")
    /\ [][\A i \in DOMAIN item :
            LET a == item[i]
                b == item'[i]
                kind == IF documents[i].ext \in {".pdf", ".tif", ".tiff"}
                        THEN "COPY_FAILED" ELSE "CONVERSION_FAILED"
                ends == b.pc \in {"done", "counted"} /\ ~b.success
            IN  /\ (b.pc = "download" /\ a.pc # "download")
                      => a.pc \in {"pending", "queued"}
                /\ (b.pc = "convert" /\ a.pc # "convert")
                      => a.pc = "download"
                /\ (b.pc = "upload" /\ a.pc # "upload")
                      => a.pc = "convert"
                /\ (b.pc = "mark" /\ a.pc # "mark") => a.pc = "upload"
                /\ (a.pc = "download" /\ b.pc \notin {"download", "convert"}
                        /\ ~b.raised)
                      => (ends /\ b.error_type = "DOWNLOAD_FAILED")
                /\ (a.pc = "convert" /\ b.pc \notin {"convert", "upload"}
                        /\ ~b.raised)
                      => (ends /\ b.error_type = kind)
                /\ (a.pc = "upload" /\ b.pc \notin {"upload", "mark"}
                        /\ ~b.raised)
                      => \/ b.success /\ b.pc = "cleanup"
                         \/ /\ ~b.success
                            /\ b.pc \in {"done", "cleanup"}
                            /\ b.error_type = "UPLOAD_FAILED"
                /\ (b.success /\ ~a.success) => a.pc \in {"upload", "mark"}
                /\ (a.error_type # "None" /\ ~b.raised)
                      => b.error_type = a.error_type]_vars

\* a copy-as-is item has ended as COPY_FAILED beside an item that went
\* through all three stages
C14_Witness ==
    \E i, j \in DOMAIN item :
       /\ IsCopyAsIs(documents[i])
       /\ item[i].pc = "counted"
       /\ item[i].error_type = "COPY_FAILED"
       /\ item[j].pc = "counted"
       /\ item[j].success

\* ---------------------------------------------------------------- C15
\* C15: with progress bars enabled the pool's bar is advanced by exactly 1
\* for every item that completes, succeeded or failed, on either path:
\* during an invocation it stands at the number of items counted, and when
\* an invocation over N items returns it has been advanced N times.
C15_ProgressPerItem ==
    ENABLE_PROGRESS_BARS =>
       /\ (mt_pc \in {"seq", "par"}) =>
             progress_bar
                = Cardinality({i \in PoolDocs : item[i].pc = "counted"})
       /\ mt_pc = "returned" => progress_bar = PoolSize

\* ---------------------------------------------------------------- C16
RECURSIVE SumSuccesses(_)
SumSuccesses(brs) ==
    IF brs = <<>> THEN 0
    ELSE Head(brs).successful_conversions + SumSuccesses(Tail(brs))

RECURSIVE SumFailures(_)
SumFailures(brs) ==
    IF brs = <<>> THEN 0
    ELSE Head(brs).failed_conversions + SumFailures(Tail(brs))

\* batches whose pool invocation has returned to the orchestrator's loop
BatchesCompleted == IF bp_pc = "sleep" THEN batch_num + 1 ELSE batch_num

\* C16: at every point of a batched run, after k batches have completed the
\* results hold exactly k batch entries numbered 1..k in ascending order,
\* each with successes + failures = documents processed = the size of its
\* batch, and the aggregate successes and failures are the sums over the
\* entries; on normal return there are total_batches entries.
C16_JobStatsConsistent ==
    (ENABLE_BATCH_PROCESSING
        /\ bp_pc \in {"loop", "pool", "sleep", "returned"}) =>
       LET brs == results.batch_results
       IN  /\ Len(brs) = BatchesCompleted
           /\ \A k \in DOMAIN brs :
                 /\ brs[k].batch_num = k
                 /\ brs[k].documents_processed
                       = Min(k * BATCH_SIZE, Len(documents))
                            - (k - 1) * BATCH_SIZE
                 /\ brs[k].successful_conversions
                       + brs[k].failed_conversions
                       = brs[k].documents_processed
           /\ results.successful_conversions = SumSuccesses(brs)
           /\ results.failed_conversions = SumFailures(brs)
           /\ bp_pc = "returned" => Len(brs) = results.total_batches

\* ---------------------------------------------------------------- C17
\* C17: when an exception that is not a per-item failure is raised while
\* batch k is processed (by the pool or by the update of the overall bar),
\* the exception reaches the orchestrator's caller, the overall bar is
\* closed by then, no item of a later batch has been or will be started
\* and no delay was taken beside those between the batches up to k.
C17_AbortOnException ==
    /\ (ENABLE_BATCH_PROCESSING /\ bp_pc = "raised") =>
          /\ outcome.kind = "raised"
          /\ overall_progress_bar.state # "open"
          /\ mt_pc = "idle"
          /\ delays = batch_num
          /\ \A j \in DOMAIN item :
                BatchOf(j) > batch_num =>
                   (item[j].starts = 0 /\ item[j].pc = "pending")
    /\ (ENABLE_BATCH_PROCESSING /\ outcome.kind # "running") =>
          overall_progress_bar.state # "open"

\* the first of two batches was aborted by an exception: the overall bar is
\* closed and the second batch was never started
C17_Witness ==
    /\ ENABLE_BATCH_PROCESSING
    /\ bp_pc = "raised"
    /\ batch_num = 0
    /\ results.total_batches >= 2
    /\ overall_progress_bar.state = "closed"
    /\ \E j \in DOMAIN item : BatchOf(j) = 1 /\ item[j].pc = "pending"

\* ---------------------------------------------------------------- C18
\* C18: when an exception aborts a batched run during batch k, the caller
\* still receives the statistics collected for the batches before k: their
\* entries, and aggregate counts that hold at least their successes and
\* failures.
C18_StatsSurviveAbort ==
    (ENABLE_BATCH_PROCESSING /\ bp_pc = "raised") =>
       LET got == outcome.value
           kept == SubSeq(results.batch_results, 1, batch_num)
       IN  /\ Len(got.batch_results) >= batch_num
           /\ SubSeq(got.batch_results, 1, batch_num) = kept
           /\ got.successful_conversions >= SumSuccesses(kept)
           /\ got.failed_conversions >= SumFailures(kept)

\* ---------------------------------------------------------------- C19
\* rows is a beginning of the sequence all
IsPrefix(rows, all) ==
    Len(rows) <= Len(all) /\ SubSeq(all, 1, Len(rows)) = rows

\* C19: after a KeyboardInterrupt has arrived during a batched run no item
\* of a batch after the one in progress is started, every row the failure
\* file held when it arrived is still there unchanged, and so is every
\* batch entry recorded by then: in the results while the orchestrator
\* runs, in what its caller receives once it is left.
C19_InterruptKeepsRecords ==
    interrupt.arrived =>
       /\ \A j \in DOMAIN item :
             BatchOf(j) > interrupt.batch_num => item[j].starts = 0
       /\ IsPrefix(interrupt.rows, failed_tracker)
       /\ IsPrefix(interrupt.stats, results.batch_results)
       /\ bp_pc \in {"returned", "raised"} =>
             IsPrefix(interrupt.stats, outcome.value.batch_results)

\* ---------------------------------------------------------------- C20
\* C20: in a batched run with batchCount = ceil(N/B) batches a delay is
\* begun exactly once after each batch but the last: k delays have been
\* begun when batch k+1 (0-based k) is processed, a delay is begun only
\* after its batch is drained and before any item of a later batch is
\* started, none follows the last batch, and a run that returns has taken
\* max(batchCount - 1, 0) delays.
C20_DelayBetweenBatches ==
    (ENABLE_BATCH_PROCESSING /\ bp_pc # "call") =>
       LET batchCount == CeilDiv(Len(documents), BATCH_SIZE)
           expected == IF batchCount >= 1 THEN batchCount - 1 ELSE 0
       IN  /\ delays <= expected
           /\ bp_pc = "pool" => delays = batch_num
           /\ bp_pc = "loop" => delays = Min(batch_num, expected)
           /\ bp_pc = "sleep" =>
                 /\ delays = batch_num + 1
                 /\ batch_num < batchCount - 1
                 /\ mt_pc = "idle"
                 /\ \A j \in DOMAIN item :
                       IF BatchOf(j) <= batch_num
                       THEN item[j].pc = "counted"
                       ELSE item[j].pc = "pending" /\ item[j].starts = 0
           /\ bp_pc = "returned" => delays = expected

\* a run of three batches has returned after two delays
C20_Witness ==
    /\ ENABLE_BATCH_PROCESSING
    /\ bp_pc = "returned"
    /\ results.total_batches = 3
    /\ delays = 2
    /\ \A j \in DOMAIN item : item[j].pc = "counted"

\* ---------------------------------------------------------------- C21
\* C21: with batching disabled the orchestrator invokes the pool exactly
\* once, on the whole list: the slice handed over is documents[0:N], the
\* invocation begins while no item has been touched, items are taken up in
\* list order and none is started twice; no delay is taken and no batch
\* entry or overall bar is made; and what the orchestrator returns is the
\* dictionary the pool returned, with the same success and failure totals.
C21_UnbatchedIsOnePoolCall ==
    ~ENABLE_BATCH_PROCESSING =>
       /\ delays = 0
       /\ batch_num = 0
       /\ overall_progress_bar = NoBar
       /\ bp_pc \in {"call", "direct", "returned", "raised"}
       /\ bp_pc # "call" =>
             (batch_start = 0 /\ batch_end = Len(documents))
       /\ mt_pc = "call" =>
             (bp_pc = "direct" /\ \A i \in DOMAIN item : item[i] = NewItem)
       /\ mt_pc # "idle" => bp_pc = "direct"
       /\ \A i \in DOMAIN item :
             /\ item[i].starts <= 1
             /\ \A j \in DOMAIN item :
                   (i < j /\ item[j].pc # "pending") => item[i].pc # "pending"
       /\ bp_pc = "returned" =>
             /\ outcome.kind = "returned"
             /\ outcome.value = mt_results
             /\ outcome.value.total_documents = Len(documents)
             /\ outcome.value.successful_conversions
                   = mt_results.successful_conversions
             /\ outcome.value.failed_conversions
                   = mt_results.failed_conversions
       /\ bp_pc = "raised" => outcome.kind = "raised"

\* an unbatched run over two items, one counted as a success and one as a
\* failure, has returned the pool's totals
C21_Witness ==
    /\ ~ENABLE_BATCH_PROCESSING
    /\ bp_pc = "returned"
    /\ Len(documents) = 2
    /\ outcome.value.successful_conversions = 1
    /\ outcome.value.failed_conversions = 1
    /\ delays = 0

\* ---------------------------------------------------------------- C22
\* the local paths the processor uses for a document on a pool thread: the
\* fetched original and the result produced from it
LocalPaths(thread_id, doc) ==
    {temp_file_path(thread_id, doc),
     converted_file_path(temp_file_path(thread_id, doc))}

\* C22: during a parallel pool invocation the items that are in flight on
\* two different pool threads have no local path in common, neither for
\* the fetched original nor for the produced result, whatever their file
\* names; each item in flight is on exactly one thread.
C22_DistinctTempPaths ==
    OnParallelPath =>
       /\ \A t, u \in PoolThreads :
             (t # u /\ worker[t] # 0 /\ worker[u] # 0) =>
                /\ worker[t] # worker[u]
                /\ LocalPaths(t, documents[worker[t]])
                      \cap LocalPaths(u, documents[worker[u]]) = {}
       /\ \A i \in PoolDocs :
             InFlight(i) =>
                Cardinality({t \in PoolThreads : worker[t] = i}) = 1

\* two items of the same file name are in flight on two threads, both with
\* their fetched original in the temp directory
C22_Witness ==
    /\ mt_pc = "par"
    /\ \E t, u \in PoolThreads :
          /\ t # u
          /\ worker[t] # 0
          /\ worker[u] # 0
          /\ documents[worker[t]] = documents[worker[u]]
          /\ item[worker[t]].temp
          /\ item[worker[u]].temp

\* ---------------------------------------------------------------- C23
\* the stages of a call that follow get_thread_converter()
AfterFetch == {"convert", "upload", "mark", "cleanup"}

\* the one converter instance of pool thread t
OwnConverter(t) == [made_by |-> t, no |-> 1]

\* every thread constructed at most one converter, which its namespace and
\* every call of the thread past a successful fetch hold; no call holds a
\* converter another thread constructed
ConvertersPerThread ==
    /\ \A t \in PoolThreads :
          /\ made[t] <= 1
          /\ thread_local[t] = IF made[t] = 1 THEN OwnConverter(t)
                               ELSE NoConverter
          /\ (worker[t] # 0 /\ item[worker[t]].pc \in AfterFetch) =>
                /\ made[t] = 1
                /\ item[worker[t]].document_converter = OwnConverter(t)
    /\ \A i \in DOMAIN item :
          item[i].document_converter # NoConverter =>
             \E t \in PoolThreads :
                /\ worker[t] = i
                /\ item[i].document_converter.made_by = t

InExternalCall(t) ==
    /\ worker[t] # 0
    /\ item[worker[t]].pc \in {"download", "convert", "upload"}

\* thread t is inside a fetch or publish call, which may not return
MayBlock(t) ==
    /\ worker[t] # 0
    /\ item[worker[t]].pc \in {"download", "upload"}

\* document i has not been submitted or its call has not returned
Unfinished(i) == item[i].pc = "pending" \/ item[i].pc = "queued" \/ InFlight(i)

\* a step of the main thread or of a pool thread other than t
StepWithout(t) ==
    \/ Submit
    \/ \E i \in PoolDocs :
          \/ CollectAcquire(i) \/ Collect(i) \/ CollectUpdate(i)
          \/ CollectHandler(i) \/ CollectReupdate(i)
    \/ \E u \in PoolThreads \ {t} :
          \/ WorkerStart(u) \/ Download(u) \/ Convert(u) \/ Upload(u)
          \/ MarkProcessed(u) \/ Cleanup(u)

\* C24: with more than one worker, a worker that stays inside a fetch or
\* publish call does not stop the others from starting and completing the
\* remaining items: no pool thread holds a lock while it is inside a fetch,
\* transform or publish call, and as long as an item other than the blocked
\* worker's is not finished, a step of the main thread or of another worker
\* can be taken without the blocked worker moving.
C24_BlockedWorkerBlocksNoOne ==
    OnParallelPath =>
       \A t \in PoolThreads :
          /\ InExternalCall(t) => (t \notin lock /\ t \notin progress_lock)
          /\ (/\ mt_results.thread_count > 1
              /\ MayBlock(t)
              /\ \E i \in PoolDocs \ {worker[t]} : Unfinished(i))
                => ENABLED StepWithout(t)

\* the first thread is still inside the download of the first item while
\* every other item of the list was processed by the other thread and
\* counted
C24_Witness ==
    /\ mt_pc = "par"
    /\ mt_results.thread_count > 1
    /\ worker[1] # 0
    /\ item[worker[1]].pc = "download"
    /\ worker[1] = 1
    /\ PoolSize > 1
    /\ \A i \in PoolDocs \ {worker[1]} : item[i].pc = "counted"

\* ---------------------------------------------------------------- C25
\* the main thread is inside a "with self._lock" block of the collector
CountingUnderLock ==
    \E i \in PoolDocs : item[i].pc \in {"collecting", "handling"}

\* the main thread is inside a "with self._progress_lock" block
UpdatingUnderProgressLock ==
    \E i \in PoolDocs : item[i].pc \in {"updating", "reupdating"}

\* C25: the counters and the failure file are updated inside the
\* aggregator lock and the bar inside the progress lock, two different
\* locks; no thread ever holds both, so the holder of one never waits for
\* the other: the step that ends its block can always be taken, and a
\* worker that wants the aggregator lock while the bar is updated gets it.
C25_TwoLocksNeverNested ==
    OnParallelPath =>
       /\ lock \cap progress_lock = {}
       /\ Cardinality(lock) <= 1
       /\ Cardinality(progress_lock) <= 1
       /\ mt_pc = "par" =>
             /\ CountingUnderLock <=> MainThread \in lock
             /\ UpdatingUnderProgressLock <=> MainThread \in progress_lock
       /\ (mt_pc = "par" /\ MainThread \in lock) =>
             ENABLED (\E i \in PoolDocs : Collect(i) \/ CollectHandler(i))
       /\ (mt_pc = "par" /\ MainThread \in progress_lock) =>
             /\ ENABLED (\E i \in PoolDocs :
                            CollectUpdate(i) \/ CollectReupdate(i))
             /\ \A t \in PoolThreads :
                   (worker[t] # 0 /\ item[worker[t]].pc = "mark") =>
                      ENABLED MarkProcessed(t)

\* the main thread updates the bar for a counted result inside the
\* progress lock while a worker is about to take the aggregator lock
C25_Witness ==
    /\ mt_pc = "par"
    /\ progress_lock = {MainThread}
    /\ lock = {}
    /\ \E i \in PoolDocs :
          /\ item[i].pc = "updating"
          /\ item[i].succ + item[i].fails = 1
    /\ \E t \in PoolThreads :
          /\ worker[t] # 0
          /\ item[worker[t]].pc = "mark"

\* ---------------------------------------------------------------- C26
\* the row a call of add_failed_conversion for document i writes now
AppendedRow(i, error_type) ==
    [item |-> i, filename |-> documents[i], error_type |-> error_type,
     timestamp |-> isoformat(clock)]

ReadAll == get_failed_conversions(failed_tracker, reply.read)

\* the filters as the specification words them
KindIs(f, error_type) == error_type = NoErrorType \/ f.error_type = error_type
InWindow(f, hours) == hours = 0 \/ fromisoformat(f.timestamp) >= clock - hours
NameHas(f, filename) ==
    filename = NoFilename \/ Contains(filename, document_name(f.filename))

\* C27: each query of the failure file returns exactly the records of
\* read-all that satisfy its filter, in stored order: by error kind the
\* records of that kind, by time window the records not older than the
\* window, by file name the records whose name contains the given text
C27_QueriesAreFilters ==
    /\ reply.op = "get_failed_conversions_by_error_type" =>
          reply.rows = SelectSeq(ReadAll,
                                 LAMBDA f : KindIs(f, reply.error_type))
    /\ reply.op = "get_recent_failures" =>
          reply.rows = SelectSeq(ReadAll,
                                 LAMBDA f : InWindow(f, reply.hours))
    /\ reply.op = "get_failed_conversions_by_filename" =>
          reply.rows = SelectSeq(ReadAll,
                                 LAMBDA f : NameHas(f, reply.filename))
    /\ reply.op = "show_list" =>
          reply.rows = SelectSeq(ReadAll,
                                 LAMBDA f : /\ InWindow(f, reply.hours)
                                            /\ KindIs(f, reply.error_type)
                                            /\ NameHas(f, reply.filename))
    /\ reply.op = "export_failures" =>
          reply.rows = SelectSeq(ReadAll,
                                 LAMBDA f : /\ KindIs(f, reply.error_type)
                                            /\ NameHas(f, reply.filename))

\* ---------------------------------------------------------------- C28
\* C28: clear_old_records(days) removes exactly the records older than the
\* cutoff: when the call ends the file holds every record it held whose
\* timestamp is not older than the cutoff, unchanged and in order, and no
\* other record
C28_PruneExact ==
    [][(clearing.pc = "rewrite" /\ clearing'.pc = "idle") =>
          failed_tracker' =
              SelectSeq(failed_tracker,
                        LAMBDA f : fromisoformat(f.timestamp)
                                      >= clock - clearing.days * HoursPerDay)
      ]_vars

\* ---------------------------------------------------------------- C29
\* C29: for every item count N the estimate reports ceil(N / BATCH_SIZE)
\* batches when batching is enabled, the number of batches a run over N
\* items reports, and 1 batch when batching is disabled; its memory
\* projection is 50 MB times the batch count it reports
C29_EstimateMatchesRun ==
    reply.op = "get_batch_processing_estimate" =>
       /\ ENABLE_BATCH_PROCESSING =>
             /\ reply.estimates.estimated_batches =
                    CeilDiv(reply.total_documents, BATCH_SIZE)
             /\ reply.estimates.estimated_batches = num_batches
             /\ bp_pc = "loop" =>
                   reply.estimates.estimated_batches = results.total_batches
       /\ ~ENABLE_BATCH_PROCESSING => reply.estimates.estimated_batches = 1
       /\ reply.estimates.memory_usage_mb =
              50 * reply.estimates.estimated_batches

\* ---------------------------------------------------------------- C30
\* the answer of the validation
Validation == reply.validation

\* the number of flags that are not ok
FlagsNotOk ==
    (IF Validation.batch_size_ok THEN 0 ELSE 1)
       + (IF Validation.thread_count_ok THEN 0 ELSE 1)
       + (IF Validation.delay_ok THEN 0 ELSE 1)

\* C30: validate_batch_configuration flags the batch size exactly when it is
\* below 100 or above 10000, the worker count exactly when it is below 4 or
\* above 32 and the delay exactly when it is below 1 or above 30, returns
\* one message per flag that is not ok and no other, and is advisory only:
\* it returns, the settings it judged are the settings in force, and a run
\* can start whether or not it has been called and whatever it said
C30_ValidationAdvisory ==
    /\ reply.op = "validate_batch_configuration" =>
          /\ Validation.batch_size_ok <=>
                ~(BATCH_SIZE < 100 \/ BATCH_SIZE > 10000)
          /\ Validation.thread_count_ok <=>
                ~(MAX_WORKER_THREADS < 4 \/ MAX_WORKER_THREADS > 32)
          /\ Validation.delay_ok <=>
                ~(BATCH_DELAY_SECONDS < 1 \/ BATCH_DELAY_SECONDS > 30)
          /\ Len(Validation.recommendations) = FlagsNotOk
          /\ \A a, b \in 1..Len(Validation.recommendations) :
                a # b => Validation.recommendations[a]
                            # Validation.recommendations[b]
    /\ bp_pc = "call" => ENABLED (CallBatched \/ CallUnbatched)
    /\ reply = NoReply => ENABLED ValidateBatchConfiguration

\* a batch size on the limit passes while the worker count and the delay
\* are flagged, and the run starts after the answer
C30_Witness ==
    /\ reply.op = "validate_batch_configuration"
    /\ BATCH_SIZE = 100
    /\ Validation.batch_size_ok
    /\ ~Validation.thread_count_ok
    /\ ~Validation.delay_ok
    /\ Len(Validation.recommendations) = 2
    /\ bp_pc = "loop"

\* ---------------------------------------------------------------- C31
\* the batch boundaries that n items and a batch size b determine
Boundaries(n, b) ==
    [k \in 1..CeilDiv(n, b) |->
        [start |-> (k - 1) * b, end |-> IF k * b < n THEN k * b ELSE n]]

\* C31: batching is deterministic: the number of batches and the start and
\* end offsets of every batch a batched run forms are those the item count
\* and the batch size alone determine, whatever the outcomes of the items,
\* the scheduling of the workers and the results of the earlier batches
C31_BoundariesDeterministic ==
    (ENABLE_BATCH_PROCESSING /\ bp_pc # "call") =>
       LET plan == Boundaries(Len(documents), BATCH_SIZE)
       IN  /\ results.total_batches = Len(plan)
           /\ bp_pc = "pool" =>
                 /\ batch_num + 1 \in DOMAIN plan
                 /\ batch_start = plan[batch_num + 1].start
                 /\ batch_end = plan[batch_num + 1].end
           /\ Len(results.batch_results) <= Len(plan)
           /\ \A j \in 1..Len(results.batch_results) :
                 /\ results.batch_results[j].batch_num = j
                 /\ results.batch_results[j].documents_processed =
                        plan[j].end - plan[j].start
           /\ outcome.kind = "returned" =>
                 Len(results.batch_results) = Len(plan)

\* the second batch is under way on the pool's threads after a first batch
\* with a failed item
C31_Witness ==
    /\ ENABLE_BATCH_PROCESSING
    /\ bp_pc = "pool"
    /\ mt_pc = "par"
    /\ batch_num = 1
    /\ batch_start = BATCH_SIZE
    /\ results.failed_conversions > 0
    /\ \E i \in PoolDocs : InFlight(i)

\* ---------------------------------------------------------------- C32
\* documents of the slice whose result the collector loop has counted
Collected(i) == item[i].pc \in {"updating", "counted"}

\* what the results of the items' steps determine on the parallel path:
\* one count per collected item, by its result, and at most one row, of its
\* error kind, for an item that failed
ParallelTotalsByResult ==
    /\ mt_results.successful_conversions =
          Cardinality({i \in PoolDocs : Collected(i) /\ item[i].success})
    /\ mt_results.failed_conversions =
          Cardinality({i \in PoolDocs : Collected(i) /\ ~item[i].success})
    /\ \A i \in PoolDocs :
          /\ Cardinality(RowsOf(i)) <= 1
          /\ \A k \in RowsOf(i) :
                /\ Collected(i) /\ ~item[i].success
                /\ failed_tracker[k].error_type = item[i].error_type

C33_SuppressionUndone ==
    bp_pc # "call" => root_logger = basicConfig

\* the item ended in a failure kind: its result names one, it was counted
\* as failed, or the failure file holds a record of it
EndedInFailure(i) ==
    \/ item[i].error_type # "None"
    \/ item[i].fails > 0
    \/ RowsOf(i) # {}

NoHoldAndWait ==
    /\ lock \subseteq {MainThread}
    /\ progress_lock \subseteq {MainThread}
    /\ lock = {} \/ progress_lock = {}

\* the run has returned its statistics, every batch completed and every
\* item with an outcome
RunReturned ==
    /\ bp_pc = "returned"
    /\ outcome.kind = "returned"
    /\ mt_pc \in {"idle", "returned"}
    /\ \A i \in DOMAIN item : item[i].pc = "counted"
    /\ ENABLE_BATCH_PROCESSING =>
          /\ outcome.value = results
          /\ Len(results.batch_results) = results.total_batches

OnParallelPathOf(i) ==
    LET k == (i - 1) \div BATCH_SIZE
    IN  ~UseSequential(BatchEndOf(k) - BatchStartOf(k))

\* the stage results of a finished item, as far as its record tells them
\* apart: whether the publish succeeded, the failure kind of a stage that
\* returned a failure, and whether a stage raised
StageResults(i) == <<item[i].success, item[i].error_type, item[i].raised>>

\* the record tells the stage results: every stage returned, or the publish
\* succeeded and the cleanup raised; and the failure file took every record
\* handed to it
StagesKnown(i) ==
    /\ item[i].success \/ ~item[i].raised
    /\ Cardinality(RowsOf(i)) = item[i].fails

\* what the claim compares: the item's contribution to either count,
\* whether it is marked as processed, the failure kinds recorded for it and
\* whether a temporary file of it is left
Observed(i) ==
    <<item[i].succ, item[i].fails, i \in processed_files,
      {failed_tracker[k].error_type : k \in RowsOf(i)}, item[i].temp>>

\* C36: an item handled on the parallel path and an item handled on the
\* sequential path with the same stage results are counted, marked,
\* recorded and cleaned up alike
C36_PathsAgree ==
    \A i, j \in DOMAIN item :
        (/\ item[i].pc = "counted" /\ item[j].pc = "counted"
         /\ OnParallelPathOf(i) /\ ~OnParallelPathOf(j)
         /\ StagesKnown(i) /\ StagesKnown(j)
         /\ StageResults(i) = StageResults(j))
        => Observed(i) = Observed(j)

\* the item's result has been published and the item is marked as processed
Published(i) == item[i].success /\ i \in processed_files

\* C37: two distinct items of a run are not published under the same blob
\* name, and the blob of an item counted as successful holds that item's
\* result
C37_DistinctDestinations ==
    /\ \A i, j \in DOMAIN item :
          (i # j /\ Published(i) /\ Published(j))
             => blob_name(documents[i]) # blob_name(documents[j])
    /\ \A i \in DOMAIN item :
          Published(i)
             => /\ blob_name(documents[i]) \in DOMAIN destination
                /\ destination[blob_name(documents[i])] = i

\* the records appended to the file since the clear_old_records call under
\* way read it
AppendedSinceRead ==
    {failed_tracker[n] :
        n \in (clearing.file_rows + 1)..Len(failed_tracker)}

\* C38: a record that add_failed_conversion appends between the read and
\* the rewrite of a clear_old_records call is in the file when the call
\* has rewritten it
C38_FreshRecordKept ==
    [][(clearing.pc = "rewrite" /\ clearing'.pc = "idle") =>
          \A f \in AppendedSinceRead :
             \E m \in DOMAIN failed_tracker' : failed_tracker'[m] = f
      ]_vars

\* C39: once a trigger file was detected and process_documents has
\* returned, the trigger file is gone, and no second job is started for the
\* same trigger file, whatever the source listing holds
C39_TriggerConsumed ==
    /\ (app.pc \in {"sleep", "poll"} /\ app.jobs > 0) => ~app.trigger
    /\ app.jobs <= 1

\* C40: with batching enabled the time projection for N items, in
\* sixteenths of a second, is ceil(N/B) * B * 3 + (ceil(N/B) - 1) * D * 16;
\* it is not negative, and no smaller item count has a larger projection
C40_TimeProjection ==
    (reply.op = "get_batch_processing_estimate" /\ ENABLE_BATCH_PROCESSING) =>
       LET N == reply.total_documents
           batchCount == CeilDiv(N, BATCH_SIZE)
           time == reply.estimates.estimated_time_x16
       IN  /\ time = batchCount * BATCH_SIZE * 3
                        + (batchCount - 1) * BATCH_DELAY_SECONDS * 16
           /\ time >= 0
           /\ \A M \in 0..N :
                 get_batch_processing_estimate(M).estimated_time_x16 <= time

====
